---- MODULE Spec2Model ----
(***************************************************************************)
(* eve-graph: replication of the EVE catalog (systems, stargates) and of   *)
(* the EVE-Scout wormhole feed into a Neo4j graph, and the risk engine     *)
(* that weights JUMP relationships.                                        *)
(*                                                                         *)
(* The graph store is modelled as its content: System nodes, Stargate      *)
(* nodes and a bag of JUMP relationships between System nodes.  Every      *)
(* operation of src/src/sync.rs is one action that runs the operation to   *)
(* its return.  What the operation cannot decide (the catalog's answers,   *)
(* a failing store statement, which spawned task fails first, how far an   *)
(* aborted task got) is drawn with \E.                                     *)
(*                                                                         *)
(* Numbers: the u32 values that enter calculate_total_risk are pairs       *)
(* <<hi, lo>> of 16-bit halves, so that the 32-bit square is computed with *)
(* its real width; an f64 is the exact value num / den + plus, without the *)
(* rounding of the division and of the sum.                                *)
(***************************************************************************)
EXTENDS Integers, FiniteSets, Sequences, Bags, TLC

VARIABLES
    systems,        \* the System nodes of the store
    stargates,      \* the Stargate nodes of the store
    jumps,          \* the JUMP relationships of the store (a bag)
    last,           \* the operation that returned last, its inputs and its result
    risk_refreshes, \* the risk refreshes run so far
    calc,           \* the last evaluation of calculate_total_risk on its own
    projections,    \* the named graph projections of the store
    served,         \* the operation of the service that ended since the store was
                    \* last written on its own, and its response
    graph_refreshes, \* the projection refreshes called on their own so far
    requests,       \* the HTTP requests handled so far
    connecting,     \* the call of get_graph_client_with_retry, if any
    set             \* the JoinSet of the batch in flight, and its semaphore

vars ==
    <<systems, stargates, jumps, last, risk_refreshes, calc, projections, served,
      graph_refreshes, requests, connecting, set>>

----------------------------------------------------------------------------
(* Bounds of the model *)

\* At most this many signatures in one EVE-Scout listing.
MaxSignatures == 1
\* At most this many parallel JUMP relationships between two System nodes.
MaxParallel == 2
\* At most this many spawned tasks of one batch fail or are aborted.
MaxFaults == 2

----------------------------------------------------------------------------
(* The catalog (ESI) and its answers *)

\* The systems the catalog knows.  Thera is a hub without stargates, Turnur
\* a hub with a stargate to Jita, and J164710 a wormhole system without
\* stargates.
SystemNames == <<"Thera", "Turnur", "Jita", "J164710">>

SystemIds == DOMAIN SystemNames

\* Stargate ids are written 10 * parent + destination.
StargateIds == {23, 32}

\* GET universe/systems/{id}: the body of a 2xx answer.
SystemEsiResponse(system_id) ==
    [system_id |-> system_id,
     name      |-> SystemNames[system_id],
     stargates |-> {g \in StargateIds : g \div 10 = system_id}]

\* GET universe/stargates/{id}: the body of a 2xx answer.
StargateEsiResponse(stargate_id) ==
    [stargate_id |-> stargate_id,
     system_id   |-> stargate_id \div 10,
     destination |-> [system_id |-> stargate_id % 10]]

\* The kinds of RequestError a catalog call can end with.
RequestErrorKinds == {"NotFound", "RateLimited", "ServerError", "UnexpectedError"}

----------------------------------------------------------------------------
(* ReplicationError and results *)

Ok == [tag |-> "Ok", kind |-> "-"]
Source(kind) == [tag |-> "Source", kind |-> kind]
Target == [tag |-> "Target", kind |-> "-"]

\* What an operation was given by the services it reads: the signatures of
\* EVE-Scout, the kills and the jumps listing of the catalog.
Given(sigs, system_kills, system_jumps) ==
    [sigs |-> sigs, system_kills |-> system_kills, system_jumps |-> system_jumps]

NoOp ==
    [op |-> "none", result |-> Ok, at |-> "-", esi_ids |-> {}, fates |-> <<>>,
     sigs |-> <<>>, system_kills |-> <<>>, system_jumps |-> <<>>,
     removed_stargates |-> {}]

----------------------------------------------------------------------------
(* Numbers *)

\* A u32 is <<hi, lo>>, its value hi * 2^16 + lo.
Half == 2^16

U32(n) == <<n \div Half, n % Half>>

U32Zero == <<0, 0>>

U32Leq(a, b) == a[1] < b[1] \/ (a[1] = b[1] /\ a[2] <= b[2])

\* The product of two 16-bit values, exact, as a u32.
Mul16(a, b) ==
    LET t   == (a \div 256) * b
        low == (t % 256) * 256 + (a % 256) * b
    IN  <<t \div 256 + low \div Half, low % Half>>

\* The low 32 bits of the square of a u32: lo * lo + 2 * hi * lo * 2^16.
wrapping_pow2(k) ==
    LET low   == Mul16(k[2], k[2])
        cross == Mul16(k[1], k[2])
    IN  <<(low[1] + 2 * cross[2]) % Half, low[2]>>

\* The square of a u32 does not fit in 32 bits: from 65536 on.
pow2_overflows(k) == k[1] > 0

RECURSIVE GCD(_, _)
GCD(a, b) == IF b = 0 THEN a ELSE GCD(b, a % b)

\* A rational <<n, d>> in lowest terms.
Reduce(q) ==
    LET g == GCD(q[1], q[2])
    IN  IF g = 0 THEN q ELSE <<q[1] \div g, q[2] \div g>>

\* The f64 num / den + plus, num and den u32 and plus a rational.
F64(num, den, plus) == [num |-> num, den |-> den, plus |-> plus]

\* The value of an f64 whose parts are below 2^16, as a rational.
F64Rational(x) ==
    Reduce(<<x.num[2] * x.plus[2] + x.plus[1] * x.den[2], x.den[2] * x.plus[2]>>)

F64Positive(x) == x.num # U32Zero \/ x.plus[1] > 0

\* x <= y, for values with the same plus and the same den or the same num.
F64Leq(x, y) ==
    /\ x.plus = y.plus
    /\ IF x.den = y.den THEN U32Leq(x.num, y.num)
       ELSE x.num = y.num /\ (x.num = U32Zero \/ U32Leq(y.den, x.den))

----------------------------------------------------------------------------
(* Graph store adapter: src/src/database.rs *)

NodeOf(s) == <<s.system_id, s.copy>>

\* The System nodes a pattern (:System {system_id: id}) matches.
MatchSystem(sys, id) == {s \in sys : s.system_id = id}

get_all_system_ids(sys) == {s.system_id : s \in sys}

get_all_stargate_ids(sgs) == {g.stargate_id : g \in sgs}

\* A node identity not in use for this id (CREATE always makes a new node).
FreshCopy(nodes, id) ==
    CHOOSE c \in 1..(Cardinality(nodes) + 1) :
        /\ \A n \in nodes : ~(n.id = id /\ n.copy = c)
        /\ \A b \in 1..(c - 1) : \E n \in nodes : n.id = id /\ n.copy = b

\* From<SystemEsiResponse> for System, then CREATE (s:System {...}).
SystemFrom(r) ==
    [system_id |-> r.system_id, name |-> r.name, stargates |-> r.stargates,
     kills |-> 0, jumps |-> 0]

save_system(sys, system) ==
    sys \cup {[system_id |-> system.system_id,
               copy      |-> FreshCopy({[id |-> s.system_id, copy |-> s.copy] : s \in sys},
                                       system.system_id),
               name      |-> system.name,
               stargates |-> system.stargates,
               kills     |-> system.kills,
               jumps     |-> system.jumps]}

\* The bag without the relationships outside kept.
BagFilter(B, kept) == [e \in DOMAIN B \cap kept |-> B[e]]

\* MATCH (s:System) WHERE s.system_id IN $ids DETACH DELETE s
remove_systems_by_id_nodes(sys, ids) == {s \in sys : s.system_id \notin ids}

remove_systems_by_id_jumps(sys, jmp, ids) ==
    LET gone == {NodeOf(s) : s \in {t \in sys : t.system_id \in ids}}
    IN  BagFilter(jmp, {e \in DOMAIN jmp : e.source \notin gone /\ e.dest \notin gone})

\* The System nodes whose system_id more than one node has (WHERE count > 1).
DuplicatedSystems(sys) ==
    {s \in sys : Cardinality(MatchSystem(sys, s.system_id)) > 1}

\* A pass that deletes every node of a duplicated system_id.
DuplicateSurvivors_none_kept(sys) == {sys \ DuplicatedSystems(sys)}

\* A pass that deletes one node of each duplicated system_id.
DuplicateSurvivors_one_deleted(sys) ==
    {sys \ deleted : deleted \in
        {d \in SUBSET DuplicatedSystems(sys) :
            \A s \in DuplicatedSystems(sys) :
                Cardinality(MatchSystem(d, s.system_id)) = 1}}

\* The ways remove_duplicate_systems can end: TAIL(duplicates) is every node
\* of the group but the one collected first, and the store fixes no order of
\* collection.
DuplicateSurvivors(sys) ==
    {sys \ deleted : deleted \in
        {d \in SUBSET DuplicatedSystems(sys) :
            \A s \in DuplicatedSystems(sys) :
                Cardinality(MatchSystem(sys, s.system_id) \ d) = 1}}

remove_duplicate_systems_jumps(jmp, keep) ==
    LET kept == {NodeOf(s) : s \in keep}
    IN  BagFilter(jmp, {e \in DOMAIN jmp : e.source \in kept /\ e.dest \in kept})

\* An absent risk property.
NoRisk == [absent |-> TRUE]

\* How the binary was built: u32::pow panics on overflow when overflow checks
\* are on (debug) and wraps when they are off (release).
Builds == {"debug", "release"}

\* A panic of the evaluating task.
Panic == [panic |-> TRUE]

\* A risk computed without u32::pow wrapping or panicking.
calculate_total_risk_linear(kills, jumps_, baseline_jump_risk, build) ==
    F64(kills, IF jumps_ # U32Zero THEN jumps_ ELSE U32(1), baseline_jump_risk)

\* calculate_total_risk: kills squared as a u32, divided by jumps (here
\* jumps_) when it is positive, plus the baseline.
calculate_total_risk(kills, jumps_, baseline_jump_risk, build) ==
    LET kills_squared == wrapping_pow2(kills)
        system_jump_risk_den == IF jumps_ # U32Zero THEN jumps_ ELSE U32(1)
    IN  IF pow2_overflows(kills) /\ build = "debug" THEN Panic
        ELSE F64(kills_squared, system_jump_risk_den, baseline_jump_risk)

\* MATCH (:System {system_id: $source_system})-[r:JUMP]->(:System {system_id:
\* $dest_system}) RETURN COUNT(r) > 0
jump_exists(sys, jmp, source_system, dest_system) ==
    \E e \in DOMAIN jmp :
        /\ e.source \in {NodeOf(s) : s \in MatchSystem(sys, source_system)}
        /\ e.dest \in {NodeOf(s) : s \in MatchSystem(sys, dest_system)}

\* MATCH (source:System {..}) MATCH (dest:System {..})
\* CREATE (source)-[:JUMP {cost: 1}]->(dest): one relationship for every
\* matched pair, none when either system is not stored.
create_system_jump(sys, jmp, source_system, dest_system) ==
    jmp (+) SetToBag({[source |-> NodeOf(a), dest |-> NodeOf(b),
                       cost |-> 1, risk |-> NoRisk] :
                        <<a, b>> \in MatchSystem(sys, source_system)
                                        \X MatchSystem(sys, dest_system)})

create_system_jump_if_missing(sys, jmp, source_system, dest_system) ==
    IF ~jump_exists(sys, jmp, source_system, dest_system)
    THEN create_system_jump(sys, jmp, source_system, dest_system)
    ELSE jmp

\* A statement that sets the kills of every System node.
set_last_hour_system_kills_unmatched(sys, system_id, kills) ==
    {[s EXCEPT !.kills = kills] : s \in sys}

\* MATCH (s:System {system_id: $system_id}) SET s.kills = $kills
set_last_hour_system_kills(sys, system_id, kills) ==
    {IF s.system_id = system_id THEN [s EXCEPT !.kills = kills] ELSE s : s \in sys}

\* MATCH (s:System {system_id: $system_id}) SET s.jumps = $jumps
set_last_hour_system_jumps(sys, system_id, jumps_) ==
    {IF s.system_id = system_id THEN [s EXCEPT !.jumps = jumps_] ELSE s : s \in sys}

\* MATCH (system:System {system_id: $system_id}) RETURN system LIMIT 1: the
\* nodes it can return.
get_system(sys, system_id) == MatchSystem(sys, system_id)

\* The bag with every relationship e replaced by change[e].
BagMap(B, change) ==
    [n \in {change[e] : e \in DOMAIN B} |->
        BagCardinality([e \in {x \in DOMAIN B : change[x] = n} |-> B[e]])]

\* A set_system_jump_risk that writes the risk of a system on the JUMP
\* relationships that leave it.
set_system_jump_risk_outbound(sys, jmp, system_id, baseline_jump_risk, build) ==
    LET system == CHOOSE s \in get_system(sys, system_id) : TRUE
        total_risk == calculate_total_risk(U32(system.kills), U32(system.jumps),
                                           baseline_jump_risk, build)
        into == {NodeOf(s) : s \in MatchSystem(sys, system_id)}
    IN  BagMap(jmp, [e \in DOMAIN jmp |->
                        IF e.source \in into
                        THEN [e EXCEPT !.risk = total_risk] ELSE e])

\* set_system_jump_risk: the risk of the system, computed from its counters,
\* is SET on every JUMP relationship into it; nothing when it is not stored.
\* (One node per id in the stores this runs on, so LIMIT 1 leaves no choice.)
set_system_jump_risk(sys, jmp, system_id, baseline_jump_risk, build) ==
    IF get_system(sys, system_id) = {} THEN jmp
    ELSE LET system == CHOOSE s \in get_system(sys, system_id) : TRUE
             total_risk == calculate_total_risk(U32(system.kills), U32(system.jumps),
                                                baseline_jump_risk, build)
             into == {NodeOf(s) : s \in MatchSystem(sys, system_id)}
         IN  BagMap(jmp, [e \in DOMAIN jmp |->
                             IF e.dest \in into
                             THEN [e EXCEPT !.risk = total_risk] ELSE e])

\* From<StargateEsiResponse> for Stargate.
StargateFrom(r) ==
    [stargate_id |-> r.stargate_id, system_id |-> r.system_id,
     destination_system_id |-> r.destination.system_id]

\* save_stargate, first statement: CREATE (sg:Stargate {...}).
save_stargate_node(sgs, stargate) ==
    sgs \cup {[stargate_id |-> stargate.stargate_id,
               copy |-> FreshCopy({[id |-> g.stargate_id, copy |-> g.copy] : g \in sgs},
                                  stargate.stargate_id),
               system_id |-> stargate.system_id,
               destination_system_id |-> stargate.destination_system_id]}

\* save_stargate, then: create_system_jump_if_missing(system_id, destination).
save_stargate_jump(sys, jmp, stargate) ==
    create_system_jump_if_missing(sys, jmp, stargate.system_id,
                                  stargate.destination_system_id)

\* A statement that deletes no Stargate node.
remove_stargates_by_id_none(sgs, ids) == sgs

\* MATCH (s:Stargate) WHERE s.stargate_id IN $ids DETACH DELETE s.  A Stargate
\* node has no relationships: the JUMP relationships join System nodes.
remove_stargates_by_id(sgs, ids) == {g \in sgs : g.stargate_id \notin ids}

\* The Stargate nodes whose stargate_id more than one node has.
DuplicatedStargates(sgs) ==
    {g \in sgs : Cardinality({h \in sgs : h.stargate_id = g.stargate_id}) > 1}

\* The ways remove_duplicate_stargates can end.
DuplicateStargateSurvivors(sgs) ==
    {sgs \ deleted : deleted \in
        {d \in SUBSET DuplicatedStargates(sgs) :
            \A g \in DuplicatedStargates(sgs) :
                Cardinality({h \in sgs \ d : h.stargate_id = g.stargate_id}) = 1}}

\* A purge that deletes only the relationships leaving the system.
drop_system_connections_outgoing(sys, jmp, system_name) ==
    LET named == {NodeOf(s) : s \in {x \in sys : x.name = system_name}}
    IN  BagFilter(jmp, {e \in DOMAIN jmp : e.source \notin named})

\* MATCH (:System {name: $system_name})-[r]-() DELETE r
drop_system_connections(sys, jmp, system_name) ==
    LET named == {NodeOf(s) : s \in {x \in sys : x.name = system_name}}
    IN  BagFilter(jmp, {e \in DOMAIN jmp : e.source \notin named /\ e.dest \notin named})

\* save_wormhole, first statement: the relationship in -> out.
save_wormhole_first(sys, jmp, in_system_id, out_system_id) ==
    create_system_jump(sys, jmp, in_system_id, out_system_id)

\* save_wormhole: both relationships.
save_wormhole(sys, jmp, in_system_id, out_system_id) ==
    create_system_jump(sys,
        create_system_jump(sys, jmp, in_system_id, out_system_id),
        out_system_id, in_system_id)

----------------------------------------------------------------------------
(* Reconciler: src/src/sync.rs *)

\* What became of one spawned pull_system task.
\*   Saved      the detail fetch and save_system succeeded
\*   Failed     get_system_details or save_system failed: nothing was written
\*              and the task returned the error
\*   Aborted    the batch returned before the task wrote anything
SystemFates == {"Saved", "Failed", "Aborted"}

SystemFateIsError(f) == f = "Failed"

\* pull_system: the errors a failed task can return, a RequestError of the
\* detail fetch (get_system_details(..).await?) or the error of the save.
pull_system_errors == {Source(k) : k \in RequestErrorKinds} \cup {Target}

\* The results of pull_systems: the error of the failed task that completes
\* first, or success if none failed.
pull_systems_results(fates) ==
    IF \E i \in DOMAIN fates : SystemFateIsError(fates[i])
    THEN pull_system_errors ELSE {Ok}

\* The results error_if_any_member_has_error can return when the tasks of
\* DOMAIN returned have returned the errors returned: the error of the failed
\* task that completes first, or success if none failed.
JoinResults(returned) ==
    IF DOMAIN returned # {} THEN {returned[i] : i \in DOMAIN returned} ELSE {Ok}

\* The fates the tasks spawned for ids can have, errors the fates that are an
\* error.  A batch aborts tasks only when it returns early, on an error.
BatchFates(ids, Fates, errors, aborted) ==
    {fates \in [ids -> Fates] :
        /\ (\E i \in ids : fates[i] \in aborted) => (\E i \in ids : fates[i] \in errors)
        /\ Cardinality({i \in ids : fates[i] # "Saved"}) <= MaxFaults}

RECURSIVE pull_systems_nodes(_, _)
\* The store after the pull_system tasks of these ids have saved.
pull_systems_nodes(sys, ids) ==
    IF ids = {} THEN sys
    ELSE LET id == CHOOSE i \in ids : TRUE
         IN  pull_systems_nodes(
                 save_system(sys, SystemFrom(SystemEsiResponse(id))), ids \ {id})

\* The listings get_system_ids can answer with.
SystemListings ==
    {[result |-> Ok, ids |-> ids] : ids \in SUBSET SystemIds}
        \cup {[result |-> Source(k), ids |-> {}] : k \in RequestErrorKinds}

\* A reconciler that never removes a system.
systems_to_remove_nothing(db_system_ids, esi_system_ids) == {}

\* to_remove: in the store but not in the listing.
systems_to_remove(db_system_ids, esi_system_ids) == db_system_ids \ esi_system_ids

\* A reconciler that pulls every listed system again.
systems_to_add_listed(db_system_ids, esi_system_ids) == esi_system_ids

\* to_add: in the listing but not in the store.
systems_to_add(db_system_ids, esi_system_ids) == esi_system_ids \ db_system_ids

\* The statement of the store that fails during a systems sync, if any.
SystemsSyncFailures ==
    {"get_all_system_ids", "remove_systems_by_id",
     "remove_duplicate_systems", "get_saved_system_count"}

\* What an operation returns to the model: the store it leaves, its result,
\* the call it returned an error at ("-" on success), and what it was given.
Outcome(sys, sgs, jmp, result, at, esi_ids, fates) ==
    [systems |-> sys, stargates |-> sgs, jumps |-> jmp, result |-> result,
     at |-> at, esi_ids |-> esi_ids, fates |-> fates]

\* synchronize_esi_systems, run to its return: listing is the answer of
\* get_system_ids, fail the store statement that fails, fates and pulled the
\* course of pull_systems, keep the nodes remove_duplicate_systems leaves.
synchronize_esi_systems_run(sys, sgs, jmp, listing, fail, fates, pulled, keep) ==
    LET esi_system_ids == listing.ids
        db_system_ids  == get_all_system_ids(sys)
        to_remove      == systems_to_remove(db_system_ids, esi_system_ids)
        to_add         == systems_to_add(db_system_ids, esi_system_ids)
        sys1 == IF to_remove # {}
                THEN remove_systems_by_id_nodes(sys, to_remove) ELSE sys
        jmp1 == IF to_remove # {}
                THEN remove_systems_by_id_jumps(sys, jmp, to_remove) ELSE jmp
        sys2 == pull_systems_nodes(sys1, {i \in DOMAIN fates : fates[i] = "Saved"})
        jmp3 == remove_duplicate_systems_jumps(jmp1, keep)
    IN  IF listing.result # Ok
            THEN Outcome(sys, sgs, jmp, listing.result, "get_system_ids", {}, <<>>)
        ELSE IF fail = "get_all_system_ids"
            THEN Outcome(sys, sgs, jmp, Target, fail, {}, <<>>)
        ELSE IF to_remove # {} /\ fail = "remove_systems_by_id"
            THEN Outcome(sys, sgs, jmp, Target, fail, {}, <<>>)
        ELSE IF to_add # {} /\ pulled # Ok
            THEN Outcome(sys2, sgs, jmp1, pulled, "pull_systems", {}, fates)
        ELSE IF fail = "remove_duplicate_systems"
            THEN Outcome(sys2, sgs, jmp1, Target, fail, {}, fates)
        ELSE IF fail = "get_saved_system_count"
            THEN Outcome(keep, sgs, jmp3, Target, fail, {}, fates)
        ELSE Outcome(keep, sgs, jmp3, Ok, "-", esi_system_ids, fates)

\* The named graph projections of the store: gds.graph.list.
ProjectionNames == {"system-map", "jump-risk"}

\* A name gds.graph.list does not list.
NoProjection == [present |-> FALSE]

NoProjections == [name \in ProjectionNames |-> NoProjection]

\* The operation answers no HTTP request.
NoRequest == [request |-> FALSE]

\* get_graph_client_with_retry has not been called.
NotConnecting ==
    [pc |-> "idle", max_retries |-> 0, attempt |-> 0, trace |-> <<>>,
     last_error |-> [some |-> FALSE], result |-> [tag |-> "Pending", kind |-> "-"]]

\* No batch is in flight.
NoJoinSet == [pc |-> "idle"]

\* No operation of the service has run.
NotServed ==
    [op |-> "none", steps |-> <<>>, failed |-> {}, result |-> Ok,
     response |-> NoRequest,
     after |-> [op |-> "none", result |-> Ok]]

\* No evaluation of calculate_total_risk on its own.
NoCalc == [evaluated |-> FALSE]

Init ==
    /\ systems = {}
    /\ stargates = {}
    /\ jumps = EmptyBag
    /\ last = NoOp
    /\ risk_refreshes = 0
    /\ calc = NoCalc
    /\ projections = NoProjections
    /\ served = NotServed
    /\ graph_refreshes = 0
    /\ requests = 0
    /\ connecting = NotConnecting
    /\ set = NoJoinSet

\* An operation returns: the store it leaves and what it reports.
Return(op, r, given) ==
    /\ systems' = r.systems
    /\ stargates' = r.stargates
    /\ jumps' = r.jumps
    /\ last' = [op |-> op, result |-> r.result, at |-> r.at, esi_ids |-> r.esi_ids,
                fates |-> r.fates, sigs |-> given.sigs,
                system_kills |-> given.system_kills,
                system_jumps |-> given.system_jumps,
                removed_stargates |->
                    {g.stargate_id : g \in stargates}
                        \ {g.stargate_id : g \in r.stargates}]
    /\ served' = NotServed
    /\ UNCHANGED <<calc, projections, graph_refreshes, requests, connecting, set>>

\* synchronize_esi_systems in an environment that answers with listings,
\* fails the statements failures and gives the spawned tasks fates of Fates.
synchronize_esi_systems_in(listings, failures, Fates) ==
    \E listing \in listings :
      LET db_system_ids == get_all_system_ids(systems)
          to_remove == systems_to_remove(db_system_ids, listing.ids)
          to_add    == systems_to_add(db_system_ids, listing.ids)
          \* the statements this run executes
          executed == IF listing.result # Ok THEN {}
                      ELSE {"get_all_system_ids", "remove_duplicate_systems",
                            "get_saved_system_count"}
                           \cup (IF to_remove # {} THEN {"remove_systems_by_id"} ELSE {})
      IN  \E fail \in (failures \cap executed) \cup {"none"} :
            \E fates \in
                  IF listing.result # Ok
                     \/ fail \in {"get_all_system_ids", "remove_systems_by_id"}
                  THEN {<<>>}
                  ELSE IF fail # "none" THEN {[i \in to_add |-> "Saved"]}
                  ELSE BatchFates(to_add, Fates,
                                  {f \in Fates : SystemFateIsError(f)}, {"Aborted"}) :
              \E pulled \in pull_systems_results(fates) :
                \E keep \in DuplicateSurvivors(pull_systems_nodes(
                                remove_systems_by_id_nodes(systems, to_remove),
                                {i \in DOMAIN fates : fates[i] = "Saved"})) :
                  /\ Return("synchronize_esi_systems",
                            synchronize_esi_systems_run(systems, stargates, jumps,
                                                        listing, fail, fates, pulled,
                                                        keep),
                            Given(<<>>, <<>>, <<>>))
                  /\ UNCHANGED risk_refreshes

synchronize_esi_systems ==
    synchronize_esi_systems_in(SystemListings, SystemsSyncFailures, SystemFates)

\* What became of one spawned pull_stargate task.
\*   Saved        the detail fetch and save_stargate succeeded
\*   <kind>       get_stargate_details failed with this RequestError
\*   TargetNode   the CREATE of the Stargate node failed
\*   TargetJump   the node was created, then jump_exists or the CREATE of the
\*                JUMP relationship failed
\*   Aborted      the batch returned before the task wrote anything
\*   AbortedNode  the batch returned after the node was created and before
\*                the JUMP relationship was
StargateFates ==
    {"Saved", "TargetNode", "TargetJump", "Aborted", "AbortedNode"}
        \cup RequestErrorKinds

\* A pull_stargate that skips a rate-limited fetch like any other error.
pull_stargate_skips_rate_limit(f) ==
    IF f \in {"TargetNode", "TargetJump"} THEN Target ELSE Ok

\* A pull_stargate that propagates every error of the detail fetch.
pull_stargate_propagates(f) ==
    CASE f \in RequestErrorKinds -> Source(f)
      [] f \in {"TargetNode", "TargetJump"} -> Target
      [] OTHER -> Ok

\* pull_stargate: the result of the task with this fate.
pull_stargate(f) ==
    CASE f = "Saved" -> Ok
      [] f = "NotFound" -> Ok
      [] f = "RateLimited" -> Source("RateLimited")
      [] f \in RequestErrorKinds \ {"NotFound", "RateLimited"} -> Ok
      [] f \in {"TargetNode", "TargetJump"} -> Target
      [] OTHER -> Ok

StargateFateIsError(f) ==
    f \notin {"Aborted", "AbortedNode"} /\ pull_stargate(f) # Ok

RECURSIVE pull_stargates_nodes(_, _, _)
\* The Stargate nodes after the tasks of these ids ran as far as fates says.
pull_stargates_nodes(sgs, ids, fates) ==
    IF ids = {} THEN sgs
    ELSE LET id == CHOOSE i \in ids : TRUE
             wrote == fates[id] \in {"Saved", "TargetJump", "AbortedNode"}
         IN  pull_stargates_nodes(
                 IF wrote
                 THEN save_stargate_node(sgs, StargateFrom(StargateEsiResponse(id)))
                 ELSE sgs,
                 ids \ {id}, fates)

RECURSIVE pull_stargates_jumps(_, _, _, _)
\* The JUMP relationships after the tasks of these ids ran.
pull_stargates_jumps(sys, jmp, ids, fates) ==
    IF ids = {} THEN jmp
    ELSE LET id == CHOOSE i \in ids : TRUE
         IN  pull_stargates_jumps(
                 sys,
                 IF fates[id] = "Saved"
                 THEN save_stargate_jump(sys, jmp, StargateFrom(StargateEsiResponse(id)))
                 ELSE jmp,
                 ids \ {id}, fates)

\* esi_stargate_ids: systems.into_iter().flat_map(|s| s.stargates)
esi_stargate_ids_of(sys) == UNION {s.stargates : s \in sys}

\* A reconciler that never removes a stargate.
stargates_to_remove_nothing(db_stargate_ids, esi_stargate_ids) == {}

stargates_to_remove(db_stargate_ids, esi_stargate_ids) ==
    db_stargate_ids \ esi_stargate_ids

stargates_to_add(db_stargate_ids, esi_stargate_ids) ==
    esi_stargate_ids \ db_stargate_ids

\* The statement of the store that fails during a stargates sync, if any.
StargatesSyncFailures ==
    {"get_all_systems", "get_all_stargate_ids", "remove_stargates_by_id",
     "remove_duplicate_stargates", "get_saved_stargate_count"}

\* synchronize_esi_stargates, run to its return.
synchronize_esi_stargates_run(sys, sgs, jmp, fail, fates, pulled, keep) ==
    LET esi_stargate_ids == esi_stargate_ids_of(sys)
        db_stargate_ids  == get_all_stargate_ids(sgs)
        to_remove        == stargates_to_remove(db_stargate_ids, esi_stargate_ids)
        to_add           == stargates_to_add(db_stargate_ids, esi_stargate_ids)
        sgs1 == IF to_remove # {} THEN remove_stargates_by_id(sgs, to_remove) ELSE sgs
        sgs2 == pull_stargates_nodes(sgs1, DOMAIN fates, fates)
        jmp2 == pull_stargates_jumps(sys, jmp, DOMAIN fates, fates)
    IN  IF fail \in {"get_all_systems", "get_all_stargate_ids"}
            THEN Outcome(sys, sgs, jmp, Target, fail, esi_stargate_ids, <<>>)
        ELSE IF to_remove # {} /\ fail = "remove_stargates_by_id"
            THEN Outcome(sys, sgs, jmp, Target, fail, esi_stargate_ids, <<>>)
        ELSE IF to_add # {} /\ pulled # Ok
            THEN Outcome(sys, sgs2, jmp2, pulled, "pull_stargates", esi_stargate_ids, fates)
        ELSE IF fail = "remove_duplicate_stargates"
            THEN Outcome(sys, sgs2, jmp2, Target, fail, esi_stargate_ids, fates)
        ELSE IF fail = "get_saved_stargate_count"
            THEN Outcome(sys, keep, jmp2, Target, fail, esi_stargate_ids, fates)
        ELSE Outcome(sys, keep, jmp2, Ok, "-", esi_stargate_ids, fates)

synchronize_esi_stargates_in(failures, Fates) ==
    LET esi_stargate_ids == esi_stargate_ids_of(systems)
        db_stargate_ids  == get_all_stargate_ids(stargates)
        to_remove == stargates_to_remove(db_stargate_ids, esi_stargate_ids)
        to_add    == stargates_to_add(db_stargate_ids, esi_stargate_ids)
        \* the statements this run executes
        executed == {"get_all_systems", "get_all_stargate_ids",
                     "remove_duplicate_stargates", "get_saved_stargate_count"}
                    \cup (IF to_remove # {} THEN {"remove_stargates_by_id"} ELSE {})
    IN  \E fail \in (failures \cap executed) \cup {"none"} :
          \E fates \in
                IF fail \in {"get_all_systems", "get_all_stargate_ids",
                             "remove_stargates_by_id"}
                THEN {<<>>}
                ELSE IF fail # "none" THEN {[i \in to_add |-> "Saved"]}
                ELSE BatchFates(to_add, Fates,
                                {f \in Fates : StargateFateIsError(f)},
                                {"Aborted", "AbortedNode"}) :
            \E pulled \in JoinResults(
                              [i \in {j \in DOMAIN fates : StargateFateIsError(fates[j])}
                                  |-> pull_stargate(fates[i])]) :
              \E keep \in DuplicateStargateSurvivors(pull_stargates_nodes(
                              remove_stargates_by_id(stargates, to_remove),
                              DOMAIN fates, fates)) :
                /\ Return("synchronize_esi_stargates",
                          synchronize_esi_stargates_run(systems, stargates, jumps, fail,
                                                        fates, pulled, keep),
                          Given(<<>>, <<>>, <<>>))
                /\ UNCHANGED risk_refreshes

synchronize_esi_stargates ==
    synchronize_esi_stargates_in(StargatesSyncFailures, StargateFates)

----------------------------------------------------------------------------
(* Wormhole refresher: src/src/sync.rs, src/src/eve_scout.rs *)

\* The designated hub systems, purged in this order.
FirstHub == "Thera"
SecondHub == "Turnur"

\* The signatures EVE-Scout can list: wormholes and other signature types.
EveScoutSignatures ==
    {sig \in [signature_type : {"wormhole", "data"}, in_system_id : SystemIds,
              out_system_id : SystemIds] : sig.in_system_id # sig.out_system_id}

\* The listings get_public_signatures can answer with.
SignatureListings ==
    UNION {[1..n -> EveScoutSignatures] : n \in 0..MaxSignatures}

\* The kinds of eve_scout::Error.
EveScoutErrorKinds == {"Request", "ServerError", "UnexpectedError"}

\* .filter(|sig| sig.signature_type == "wormhole")
wormholes_of(sigs) == {i \in DOMAIN sigs : sigs[i].signature_type = "wormhole"}

\* What became of one spawned save_wormhole task.
\*   Saved         both relationships were created
\*   TargetFirst   the first CREATE failed
\*   TargetSecond  the first relationship was created, the second CREATE failed
\*   Aborted       the batch returned before the task wrote anything
\*   AbortedFirst  the batch returned after the first relationship was created
WormholeFates == {"Saved", "TargetFirst", "TargetSecond", "Aborted", "AbortedFirst"}

WormholeFateIsError(f) == f \in {"TargetFirst", "TargetSecond"}

WormholeFateError(f) == Target

RECURSIVE save_wormholes(_, _, _, _, _)
\* The JUMP relationships after the save_wormhole tasks ran as far as fates says.
save_wormholes(sys, jmp, sigs, todo, fates) ==
    IF todo = {} THEN jmp
    ELSE LET i == CHOOSE j \in todo : TRUE
             f == fates[i]
         IN  save_wormholes(
                 sys,
                 IF f = "Saved"
                 THEN save_wormhole(sys, jmp, sigs[i].in_system_id, sigs[i].out_system_id)
                 ELSE IF f \in {"TargetSecond", "AbortedFirst"}
                 THEN save_wormhole_first(sys, jmp, sigs[i].in_system_id,
                                          sigs[i].out_system_id)
                 ELSE jmp,
                 sigs, todo \ {i}, fates)

\* No two System nodes are joined by more than MaxParallel relationships.
WithinMaxParallel(jmp) == \A e \in DOMAIN jmp : jmp[e] <= MaxParallel

\* The statement of the store that fails during a wormhole refresh, if any.
WormholeRefreshFailures == {"drop_first", "drop_second"}

\* The answers of get_public_signatures.
SignatureAnswers ==
    {[result |-> Ok, sigs |-> sigs] : sigs \in SignatureListings}
        \cup {[result |-> Source(k), sigs |-> <<>>] : k \in EveScoutErrorKinds}

\* refresh_eve_scout_system_relations, run to its return.
refresh_eve_scout_system_relations_run(sys, sgs, jmp, fail, answer, fates, saved) ==
    LET jmp1 == drop_system_connections(sys, jmp, FirstHub)
        jmp2 == drop_system_connections(sys, jmp1, SecondHub)
        jmp3 == save_wormholes(sys, jmp2, answer.sigs, DOMAIN fates, fates)
    IN  IF fail = "drop_first" THEN Outcome(sys, sgs, jmp, Target, fail, {}, <<>>)
        ELSE IF fail = "drop_second" THEN Outcome(sys, sgs, jmp1, Target, fail, {}, <<>>)
        ELSE IF answer.result # Ok
            THEN Outcome(sys, sgs, jmp2, answer.result, "get_public_signatures", {}, <<>>)
        ELSE Outcome(sys, sgs, jmp3, saved,
                     IF saved = Ok THEN "-" ELSE "save_wormhole", {}, fates)

refresh_eve_scout_system_relations_in(failures, answers, Fates) ==
    \E fail \in failures \cup {"none"},
       answer \in answers :
      \E fates \in IF fail # "none" \/ answer.result # Ok THEN {<<>>}
                    ELSE BatchFates(wormholes_of(answer.sigs), Fates,
                                    {f \in Fates : WormholeFateIsError(f)},
                                    {"Aborted", "AbortedFirst"}) :
        \E saved \in JoinResults(
                          [i \in {j \in DOMAIN fates : WormholeFateIsError(fates[j])}
                              |-> WormholeFateError(fates[i])]) :
          LET r == refresh_eve_scout_system_relations_run(
                       systems, stargates, jumps, fail, answer, fates, saved)
          IN  /\ WithinMaxParallel(r.jumps)
              /\ Return("refresh_eve_scout_system_relations", r,
                        Given(answer.sigs, <<>>, <<>>))
              /\ UNCHANGED risk_refreshes

refresh_eve_scout_system_relations ==
    refresh_eve_scout_system_relations_in(
        WormholeRefreshFailures, SignatureAnswers, WormholeFates)

----------------------------------------------------------------------------
(* Activity and risk engine: src/src/sync.rs *)

\* At most this many entries in a kills or jumps listing.
MaxFeed == 1
\* Every ship_kills and ship_jumps of a listing is at most this.
MaxCount == 2
\* At most this many risk refreshes in a behaviour.
MaxRiskRefreshes == 1

\* The listings get_system_kills and get_system_jumps can answer with: a
\* count for some systems.
ActivityListings ==
    UNION {[ids -> 0..MaxCount] :
              ids \in {s \in SUBSET SystemIds : Cardinality(s) <= MaxFeed}}

ActivityAnswers ==
    {[result |-> Ok, listing |-> l] : l \in ActivityListings}
        \cup {[result |-> Source(k), listing |-> <<>>] : k \in RequestErrorKinds}

RECURSIVE Galaxy(_, _)
\* .iter().map(|s| s.ship_kills).sum(), and the same for ship_jumps.
Galaxy(listing, ids) ==
    IF ids = {} THEN 0
    ELSE LET id == CHOOSE i \in ids : TRUE
         IN  listing[id] + Galaxy(listing, ids \ {id})

RECURSIVE pull_system_kills_nodes(_, _, _)
\* The System nodes after the set_last_hour_system_kills tasks of ids ran.
pull_system_kills_nodes(sys, system_kills, ids) ==
    IF ids = {} THEN sys
    ELSE LET id == CHOOSE i \in ids : TRUE
         IN  pull_system_kills_nodes(
                 set_last_hour_system_kills(sys, id, system_kills[id]),
                 system_kills, ids \ {id})

RECURSIVE pull_last_hour_of_jumps_nodes(_, _, _)
\* The System nodes after the set_last_hour_system_jumps tasks of ids ran.
pull_last_hour_of_jumps_nodes(sys, system_jumps, ids) ==
    IF ids = {} THEN sys
    ELSE LET id == CHOOSE i \in ids : TRUE
         IN  pull_last_hour_of_jumps_nodes(
                 set_last_hour_system_jumps(sys, id, system_jumps[id]),
                 system_jumps, ids \ {id})

\* A baseline that is never below 0.01.
baseline_jump_risk_floored(galaxy_kills, galaxy_jumps) ==
    IF galaxy_jumps > 0 /\ galaxy_kills * 100 >= galaxy_jumps
    THEN Reduce(<<galaxy_kills, galaxy_jumps>>)
    ELSE <<1, 100>>

\* baseline_jump_risk: galaxy_kills / galaxy_jumps, 0.01 without jumps.
baseline_jump_risk(galaxy_kills, galaxy_jumps) ==
    IF galaxy_jumps > 0
    THEN Reduce(<<galaxy_kills, galaxy_jumps>>)
    ELSE <<1, 100>>

RECURSIVE set_system_jump_risks(_, _, _, _, _)
\* The JUMP relationships after the set_system_jump_risk tasks of ids ran.
set_system_jump_risks(sys, jmp, ids, baseline, build) ==
    IF ids = {} THEN jmp
    ELSE LET id == CHOOSE i \in ids : TRUE
         IN  set_system_jump_risks(
                 sys, set_system_jump_risk(sys, jmp, id, baseline, build),
                 ids \ {id}, baseline, build)

\* The statement of the store that fails during a risk refresh, if any; for
\* a statement of a spawned task, in one task or more of the batch.
RiskRefreshFailures ==
    {"set_last_hour_system_kills", "set_last_hour_system_jumps",
     "get_all_system_ids", "set_system_jump_risk"}

\* refresh_jump_risks, run to its return: kills and jumps are the answers of
\* get_system_kills and get_system_jumps, fail the statement that fails, done
\* the tasks of the failing batch that wrote before the batch returned.
refresh_jump_risks_run(sys, sgs, jmp, kills, jumps_, fail, done, build) ==
    LET system_kills == kills.listing
        system_jumps == jumps_.listing
        galaxy_kills == Galaxy(system_kills, DOMAIN system_kills)
        galaxy_jumps == Galaxy(system_jumps, DOMAIN system_jumps)
        sys1 == pull_system_kills_nodes(sys, system_kills,
                    IF fail = "set_last_hour_system_kills" THEN done
                    ELSE DOMAIN system_kills)
        sys2 == pull_last_hour_of_jumps_nodes(sys1, system_jumps,
                    IF fail = "set_last_hour_system_jumps" THEN done
                    ELSE DOMAIN system_jumps)
        system_ids == get_all_system_ids(sys2)
        baseline == baseline_jump_risk(galaxy_kills, galaxy_jumps)
        jmp3 == set_system_jump_risks(sys2, jmp,
                    IF fail = "set_system_jump_risk" THEN done ELSE system_ids,
                    baseline, build)
    IN  IF kills.result # Ok
            THEN Outcome(sys, sgs, jmp, kills.result, "get_system_kills", {}, <<>>)
        ELSE IF fail = "set_last_hour_system_kills"
            THEN Outcome(sys1, sgs, jmp, Target, fail, {}, <<>>)
        ELSE IF jumps_.result # Ok
            THEN Outcome(sys1, sgs, jmp, jumps_.result, "get_system_jumps", {}, <<>>)
        ELSE IF fail = "set_last_hour_system_jumps"
            THEN Outcome(sys2, sgs, jmp, Target, fail, {}, <<>>)
        ELSE IF fail = "get_all_system_ids"
            THEN Outcome(sys2, sgs, jmp, Target, fail, {}, <<>>)
        ELSE IF fail = "set_system_jump_risk"
            THEN Outcome(sys2, sgs, jmp3, Target, fail, {}, <<>>)
        ELSE Outcome(sys2, sgs, jmp3, Ok, "-", {}, <<>>)

\* refresh_jump_risks in an environment that answers with answers and fails
\* the statements failures, in a binary built as one of builds.
refresh_jump_risks_in(answers, failures, builds) ==
    /\ risk_refreshes < MaxRiskRefreshes
    /\ risk_refreshes' = risk_refreshes + 1
    /\ \E kills \in answers, build \in builds :
         \E jumps_ \in IF kills.result = Ok THEN answers
                        ELSE {[result |-> Ok, listing |-> <<>>]} :
           LET \* the batches of this run that have a task
               spawned ==
                   IF kills.result # Ok THEN {}
                   ELSE (IF DOMAIN kills.listing # {}
                         THEN {"set_last_hour_system_kills"} ELSE {})
                        \cup
                        (IF jumps_.result # Ok THEN {}
                         ELSE {"get_all_system_ids"}
                              \cup (IF DOMAIN jumps_.listing # {}
                                    THEN {"set_last_hour_system_jumps"} ELSE {})
                              \cup (IF systems # {}
                                    THEN {"set_system_jump_risk"} ELSE {}))
           IN  \E fail \in (failures \cap spawned) \cup {"none"} :
                 \E done \in
                       CASE fail = "set_last_hour_system_kills" ->
                                SUBSET DOMAIN kills.listing \ {DOMAIN kills.listing}
                         [] fail = "set_last_hour_system_jumps" ->
                                SUBSET DOMAIN jumps_.listing \ {DOMAIN jumps_.listing}
                         [] fail = "set_system_jump_risk" ->
                                SUBSET get_all_system_ids(systems)
                                    \ {get_all_system_ids(systems)}
                         [] OTHER -> {{}} :
                   Return("refresh_jump_risks",
                          refresh_jump_risks_run(systems, stargates, jumps, kills,
                                                 jumps_, fail, done, build),
                          Given(<<>>, kills.listing, jumps_.listing))

\* The counters of the store are at most MaxCount, where the two builds
\* compute the same risk.
refresh_jump_risks ==
    refresh_jump_risks_in(ActivityAnswers, RiskRefreshFailures, {"release"})

----------------------------------------------------------------------------
(* An environment without failures: the catalog answers every call, the     *)
(* store fails no statement and no task is aborted.                         *)

OkSystemListings == {l \in SystemListings : l.result = Ok}

synchronize_esi_systems_ok ==
    synchronize_esi_systems_in(OkSystemListings, {}, {"Saved"})

synchronize_esi_stargates_ok ==
    synchronize_esi_stargates_in({}, {"Saved"})

\* The wormhole refresh when no save_wormhole task fails; the purges and the
\* signature fetch may.
refresh_eve_scout_system_relations_saved ==
    refresh_eve_scout_system_relations_in(
        WormholeRefreshFailures, SignatureAnswers, {"Saved"})

----------------------------------------------------------------------------
(* Specifications *)

\* The reconciler, with every failure of the catalog, of the store and of
\* the spawned tasks.
Next ==
    \/ synchronize_esi_systems
    \/ synchronize_esi_stargates

Spec == Init /\ [][Next]_vars

\* The wormhole refresher on the stores the reconciler leaves when nothing
\* fails.
NextWormholes ==
    \/ synchronize_esi_systems_ok
    \/ synchronize_esi_stargates_ok
    \/ refresh_eve_scout_system_relations_saved

SpecWormholes == Init /\ [][NextWormholes]_vars

\* The risk engine on the stores the reconciler leaves when nothing fails.
NextJumpRisks ==
    \/ synchronize_esi_systems_ok
    \/ synchronize_esi_stargates_ok
    \/ refresh_jump_risks

SpecJumpRisks == Init /\ [][NextJumpRisks]_vars

----------------------------------------------------------------------------
(* calculate_total_risk on its own *)

\* The counter values it is evaluated on: small ones, those of the tests of
\* database.rs, and those around 2^16 and at the end of the u32 range.
CounterInputs ==
    {<<0, 0>>, <<0, 1>>, <<0, 5>>, <<0, 10>>, <<0, 100>>, <<0, 200>>,
     <<0, 65535>>, <<1, 0>>, <<1, 1>>, <<65535, 65535>>}

\* The baselines it is evaluated on: 0, 0.01 and 0.1.
BaselineInputs == {<<0, 1>>, <<1, 100>>, <<1, 10>>}

Evaluation(kills, jumps_, baseline, build, moved, before) ==
    [evaluated |-> TRUE, kills |-> kills, jumps |-> jumps_, baseline |-> baseline,
     build |-> build, moved |-> moved, before |-> before,
     risk |-> calculate_total_risk(kills, jumps_, baseline, build)]

InitRisk ==
    /\ systems = {}
    /\ stargates = {}
    /\ jumps = EmptyBag
    /\ last = NoOp
    /\ risk_refreshes = 0
    /\ projections = NoProjections
    /\ served = NotServed
    /\ graph_refreshes = 0
    /\ requests = 0
    /\ connecting = NotConnecting
    /\ set = NoJoinSet
    /\ calc \in [evaluated : {FALSE}, kills : CounterInputs, jumps : CounterInputs,
                  baseline : BaselineInputs, build : Builds]

\* Evaluate on the inputs drawn.
calculate ==
    /\ ~calc.evaluated
    /\ calc' = Evaluation(calc.kills, calc.jumps, calc.baseline, calc.build,
                          "-", NoCalc)
    /\ UNCHANGED <<systems, stargates, jumps, last, risk_refreshes, projections, served,
                   graph_refreshes, requests, connecting, set>>

\* Evaluate again with at least as many kills, the rest as before.
calculate_with_more_kills ==
    /\ calc.evaluated
    /\ \E kills \in {k \in CounterInputs : U32Leq(calc.kills, k)} :
          calc' = Evaluation(kills, calc.jumps, calc.baseline, calc.build,
                             "kills", calc.risk)
    /\ UNCHANGED <<systems, stargates, jumps, last, risk_refreshes, projections, served,
                   graph_refreshes, requests, connecting, set>>

\* Evaluate again with at least as many jumps, the rest as before.
calculate_with_more_jumps ==
    /\ calc.evaluated
    /\ \E jumps_ \in {j \in CounterInputs : U32Leq(calc.jumps, j)} :
          calc' = Evaluation(calc.kills, jumps_, calc.baseline, calc.build,
                             "jumps", calc.risk)
    /\ UNCHANGED <<systems, stargates, jumps, last, risk_refreshes, projections, served,
                   graph_refreshes, requests, connecting, set>>

NextRisk ==
    \/ calculate
    \/ calculate_with_more_kills
    \/ calculate_with_more_jumps

SpecRisk == InitRisk /\ [][NextRisk]_vars

----------------------------------------------------------------------------
(* The graph store adapter called on its own: src/src/database.rs *)

\* At most this many nodes of one system_id.
MaxCopies == 3
\* At most this many nodes of one stargate_id.
MaxStargateCopies == 2

\* The systems saved directly: Turnur and Jita, joined by the stargates 23
\* and 32.
SavedSystemIds == {2, 3}

\* What a DETACH DELETE pass did to each node it matched.
NodeFates(before, after) ==
    [n \in before |-> IF n \in after THEN "Kept" ELSE "Deleted"]

\* save_system(graph, &System::from(response)): CREATE, whatever is stored.
save_system_call ==
    \E system_id \in SavedSystemIds :
        /\ Cardinality(MatchSystem(systems, system_id)) < MaxCopies
        /\ Return("save_system",
                  Outcome(save_system(systems, SystemFrom(SystemEsiResponse(system_id))),
                          stargates, jumps, Ok, "-", {}, <<>>),
                  Given(<<>>, <<>>, <<>>))
        /\ UNCHANGED risk_refreshes

\* save_stargate(graph, &Stargate::from(response)): CREATE the node, then
\* create_system_jump_if_missing.
save_stargate_call ==
    \E stargate_id \in StargateIds :
        LET stargate == StargateFrom(StargateEsiResponse(stargate_id))
        IN  /\ Cardinality({g \in stargates : g.stargate_id = stargate_id})
                  < MaxStargateCopies
            /\ Return("save_stargate",
                      Outcome(systems, save_stargate_node(stargates, stargate),
                              save_stargate_jump(systems, jumps, stargate),
                              Ok, "-", {}, <<>>),
                      Given(<<>>, <<>>, <<>>))
            /\ UNCHANGED risk_refreshes

\* remove_duplicate_systems: one statement, which fails as a whole or deletes
\* the tail of every group.
remove_duplicate_systems ==
    \E failed \in BOOLEAN, keep \in DuplicateSurvivors(systems) :
        /\ Return("remove_duplicate_systems",
                  IF failed
                  THEN Outcome(systems, stargates, jumps, Target,
                               "remove_duplicate_systems", {}, <<>>)
                  ELSE Outcome(keep, stargates,
                               remove_duplicate_systems_jumps(jumps, keep), Ok, "-",
                               {}, NodeFates(systems, keep)),
                  Given(<<>>, <<>>, <<>>))
        /\ UNCHANGED risk_refreshes

\* remove_duplicate_stargates.
remove_duplicate_stargates ==
    \E failed \in BOOLEAN, keep \in DuplicateStargateSurvivors(stargates) :
        /\ Return("remove_duplicate_stargates",
                  IF failed
                  THEN Outcome(systems, stargates, jumps, Target,
                               "remove_duplicate_stargates", {}, <<>>)
                  ELSE Outcome(systems, keep, jumps, Ok, "-", {},
                               NodeFates(stargates, keep)),
                  Given(<<>>, <<>>, <<>>))
        /\ UNCHANGED risk_refreshes

NextStore ==
    \/ save_system_call
    \/ save_stargate_call
    \/ remove_duplicate_systems
    \/ remove_duplicate_stargates

SpecStore == Init /\ [][NextStore]_vars

----------------------------------------------------------------------------
(* Projection manager: src/src/database.rs *)

\* A database::Error: a failed statement or a procedure that yields no row.
DatabaseError == [tag |-> "Error", kind |-> "database"]

\* gds.graph.project(name, 'System', 'JUMP', {relationshipProperties:
\* property}): the System nodes and the JUMP relationships of the store at
\* this moment, each relationship with the one property as its weight.
Project(sys, jmp, property) ==
    [present |-> TRUE,
     nodes   |-> {NodeOf(s) : s \in sys},
     rels    |-> BagMap(jmp, [e \in DOMAIN jmp |->
                                [source |-> e.source, dest |-> e.dest,
                                 weight |-> e[property]]])]

\* CALL gds.graph.list: a row has graphName = graph_name.
graph_exists(projs, graph_name) == projs[graph_name].present

\* CALL gds.graph.drop(graph_name)
drop_graph(projs, graph_name) == [projs EXCEPT ![graph_name] = NoProjection]

\* CALL gds.graph.project(graph_name, 'System', 'JUMP', ...)
build_graph(projs, sys, jmp, graph_name, property) ==
    [projs EXCEPT ![graph_name] = Project(sys, jmp, property)]

\* The call of a projection refresh that fails, if any.
RefreshGraphFailures == {"graph_exists", "drop", "build"}

\* What a projection refresh returns to the model: the projections it
\* leaves, its result and the calls it made.
Refreshed(projs, result, steps) ==
    [projections |-> projs, result |-> result, steps |-> steps]

\* A refresh that leaves a projection that exists as it is.
refresh_graph_keeps_existing(projs, sys, jmp, graph_name, property, fail) ==
    IF graph_exists(projs, graph_name)
    THEN Refreshed(projs, Ok, <<"graph_exists">>)
    ELSE Refreshed(build_graph(projs, sys, jmp, graph_name, property), Ok,
                   <<"graph_exists", "build">>)

\* A refresh that builds only when it did not drop.
refresh_graph_drop_or_build(projs, sys, jmp, graph_name, property, fail) ==
    IF graph_exists(projs, graph_name)
    THEN Refreshed(drop_graph(projs, graph_name), Ok, <<"graph_exists", "drop">>)
    ELSE Refreshed(build_graph(projs, sys, jmp, graph_name, property), Ok,
                   <<"graph_exists", "build">>)

\* refresh_jump_cost_graph and refresh_jump_risk_graph, run to the return:
\* if graph_exists(name)? { drop(name)? }; build(name)?; Ok(())
refresh_graph(projs, sys, jmp, graph_name, property, fail) ==
    LET existed == graph_exists(projs, graph_name)
        dropped == IF existed THEN drop_graph(projs, graph_name) ELSE projs
        checked == <<"graph_exists">>
        purged  == IF existed THEN checked \o <<"drop">> ELSE checked
    IN  IF fail = "graph_exists"
            THEN Refreshed(projs, DatabaseError, checked)
        ELSE IF existed /\ fail = "drop"
            THEN Refreshed(projs, DatabaseError, purged)
        ELSE IF fail = "build"
            THEN Refreshed(dropped, DatabaseError, purged \o <<"build">>)
        ELSE Refreshed(build_graph(dropped, sys, jmp, graph_name, property), Ok,
                       purged \o <<"build">>)

refresh_jump_cost_graph_run(projs, sys, jmp, fail) ==
    refresh_graph(projs, sys, jmp, "system-map", "cost", fail)

refresh_jump_risk_graph_run(projs, sys, jmp, fail) ==
    refresh_graph(projs, sys, jmp, "jump-risk", "risk", fail)

\* At most this many projection refreshes called on their own in a behaviour.
MaxGraphRefreshes == 2

\* An operation of the service ends: what it was, the calls it made in their
\* order, those of them that returned an error, its result and its response,
\* and the operation it came after.
Serve(op, steps, failed, result, response) ==
    served' = [op |-> op, steps |-> steps, failed |-> failed, result |-> result,
               response |-> response,
               after |-> [op |-> served.op, result |-> served.result]]

refresh_jump_cost_graph ==
    \E fail \in RefreshGraphFailures \cup {"none"} :
        LET r == refresh_jump_cost_graph_run(projections, systems, jumps, fail)
        IN  /\ graph_refreshes < MaxGraphRefreshes
            /\ graph_refreshes' = graph_refreshes + 1
            /\ projections' = r.projections
            /\ Serve("refresh_jump_cost_graph", r.steps,
                     IF r.result = Ok THEN {} ELSE {r.steps[Len(r.steps)]},
                     r.result, NoRequest)
            /\ UNCHANGED <<systems, stargates, jumps, last, risk_refreshes, calc,
                           requests, connecting, set>>

refresh_jump_risk_graph ==
    \E fail \in RefreshGraphFailures \cup {"none"} :
        LET r == refresh_jump_risk_graph_run(projections, systems, jumps, fail)
        IN  /\ graph_refreshes < MaxGraphRefreshes
            /\ graph_refreshes' = graph_refreshes + 1
            /\ projections' = r.projections
            /\ Serve("refresh_jump_risk_graph", r.steps,
                     IF r.result = Ok THEN {} ELSE {r.steps[Len(r.steps)]},
                     r.result, NoRequest)
            /\ UNCHANGED <<systems, stargates, jumps, last, risk_refreshes, calc,
                           requests, connecting, set>>

\* The projection refreshes on the stores the reconciler leaves when nothing
\* fails.
\* The catalog lists all its systems, Turnur and Jita only, or Jita and
\* J164710 only.
SomeSystemListings ==
    {l \in OkSystemListings : l.ids \in {SystemIds, {2, 3}, {3, 4}}}

synchronize_esi_systems_some ==
    synchronize_esi_systems_in(SomeSystemListings, {}, {"Saved"})

\* The activity feeds list nothing or Jita only.
SomeActivityAnswers ==
    {a \in ActivityAnswers : a.result = Ok /\ DOMAIN a.listing \subseteq {3}}

refresh_jump_risks_some ==
    refresh_jump_risks_in(SomeActivityAnswers, {}, {"release"})

NextProjections ==
    \/ synchronize_esi_systems_some
    \/ synchronize_esi_stargates_ok
    \/ refresh_jump_risks_some
    \/ refresh_jump_cost_graph
    \/ refresh_jump_risk_graph

SpecProjections == Init /\ [][NextProjections]_vars

----------------------------------------------------------------------------
(* Route queries: src/src/database.rs *)

\* Ok(None): the query yields no row.
NoRouteFound == [tag |-> "None"]

\* Ok(Some(nodeNames))
RouteFound(names) == [tag |-> "Some", route |-> names]

RationalSum(a, b) == Reduce(<<a[1] * b[2] + b[1] * a[2], a[2] * b[2]>>)

RationalLeq(a, b) == a[1] * b[2] <= b[1] * a[2]

\* The weight of a projected relationship as a rational: the cost, or the
\* f64 risk.
WeightRational(property, weight) ==
    IF property = "cost" THEN <<weight, 1>> ELSE F64Rational(weight)

\* Every relationship of the projection has the weight property: a JUMP is
\* created with its cost; one without a risk is projected with the default
\* weight, NaN.
Weighted(p, property) ==
    property = "cost" \/ \A h \in DOMAIN p.rels : h.weight # NoRisk

\* The least weight of the relationships of the projection from a to b.
HopWeight(p, property, a, b) ==
    LET weights == {WeightRational(property, h.weight) :
                       h \in {x \in DOMAIN p.rels : x.source = a /\ x.dest = b}}
    IN  CHOOSE w \in weights : \A v \in weights : RationalLeq(w, v)

RECURSIVE PathWeight(_, _, _, _)
\* totalCost of the path q from its i-th node on.
PathWeight(p, property, q, i) ==
    IF i >= Len(q) THEN <<0, 1>>
    ELSE RationalSum(HopWeight(p, property, q[i], q[i + 1]),
                     PathWeight(p, property, q, i + 1))

\* The paths of the projection from a to b that visit no node twice.
SimplePaths(p, a, b) ==
    {q \in UNION {[1..n -> p.nodes] : n \in 1..Cardinality(p.nodes)} :
        /\ q[1] = a
        /\ q[Len(q)] = b
        /\ \A i, j \in DOMAIN q : q[i] = q[j] => i = j
        /\ \A i \in 1..(Len(q) - 1) :
              \E h \in DOMAIN p.rels : h.source = q[i] /\ h.dest = q[i + 1]}

\* [nodeId IN nodeIds | gds.util.asNode(nodeId).name]: the names the store
\* has now for the nodes of the path; no list of names when a node is gone.
NodeNames(sys, q) ==
    IF \A i \in DOMAIN q : \E s \in sys : NodeOf(s) = q[i]
    THEN RouteFound([i \in DOMAIN q |-> (CHOOSE s \in sys : NodeOf(s) = q[i]).name])
    ELSE DatabaseError

\* gds.shortestPath.dijkstra.stream(graph_name, {sourceNode, targetNode,
\* relationshipWeightProperty}) for one matched row: an error when the
\* projection or one of the two nodes in it is missing, no row when no path
\* joins them, else a path of least total weight; any path when a weight is
\* NaN.
dijkstra(p, sys, property, source, target) ==
    IF ~p.present \/ source \notin p.nodes \/ target \notin p.nodes
    THEN {DatabaseError}
    ELSE LET paths == SimplePaths(p, source, target)
             least == IF ~Weighted(p, property) THEN paths
                      ELSE {q \in paths :
                               \A r \in paths :
                                   RationalLeq(PathWeight(p, property, q, 1),
                                               PathWeight(p, property, r, 1))}
         IN  IF paths = {} THEN {NoRouteFound}
             ELSE {NodeNames(sys, q) : q \in least}

\* MATCH (source:System {name}), (target:System {name}) CALL dijkstra ...:
\* the procedure runs for the matched rows, and result.next() is the first
\* row.
find_route(projs, sys, graph_name, property, from_system_name, to_system_name) ==
    LET sources == {NodeOf(s) : s \in {x \in sys : x.name = from_system_name}}
        targets == {NodeOf(s) : s \in {x \in sys : x.name = to_system_name}}
    IN  IF sources = {} \/ targets = {} THEN {NoRouteFound}
        ELSE UNION {dijkstra(projs[graph_name], sys, property, m[1], m[2]) :
                       m \in sources \X targets}

find_shortest_route(projs, sys, from_system_name, to_system_name) ==
    find_route(projs, sys, "system-map", "cost", from_system_name, to_system_name)

find_safest_route(projs, sys, from_system_name, to_system_name) ==
    find_route(projs, sys, "jump-risk", "risk", from_system_name, to_system_name)

\* The system names a route is asked for: those of the catalog and one it
\* does not have.
RouteNames == {SystemNames[i] : i \in SystemIds} \cup {"Amarr"}

----------------------------------------------------------------------------
(* Service: src/src/main.rs.  Its functions of the same name as those of    *)
(* src/src/sync.rs are the ones main and the handlers call; they are        *)
(* modelled as the sets of the outcomes they can have.                      *)

\* for _attempt in 1..=max_attempts
max_attempts == 5

\* EXPECTED_ESI_SYSTEM_COUNT and EXPECTED_ESI_STARGATE_COUNT: the sizes of
\* the catalog.
EXPECTED_ESI_SYSTEM_COUNT == Cardinality(SystemIds)
EXPECTED_ESI_STARGATE_COUNT == Cardinality(StargateIds)

\* The outcome of an operation without what it was given.
Ended(sys, sgs, jmp, result, at) == Outcome(sys, sgs, jmp, result, at, {}, <<>>)

\* pull_all_systems: get_system_ids(..).unwrap(), then a pull_system_if_missing
\* task for every listed id, which saves the system when
\* system_id_exists says it is not stored.
main_pull_all_systems(sys, sgs, jmp, listing) ==
    IF listing.result # Ok THEN {Ended(sys, sgs, jmp, Panic, "get_system_ids")}
    ELSE LET missing == listing.ids \ get_all_system_ids(sys)
         IN  UNION {
               {Ended(pull_systems_nodes(sys, {i \in missing : fates[i] = "Saved"}),
                      sgs, jmp, pulled,
                      IF pulled = Ok THEN "-" ELSE "pull_system_if_missing") :
                   pulled \in pull_systems_results(fates)} :
               fates \in BatchFates(listing.ids, SystemFates,
                                    {f \in SystemFates : SystemFateIsError(f)},
                                    {"Aborted"})}

RECURSIVE main_synchronize_esi_systems_loop(_, _, _, _, _, _)
\* The loop of synchronize_esi_systems from one attempt on.  The count is
\* read again after a pull only; the catalog answers every attempt alike.
main_synchronize_esi_systems_loop(sys, sgs, jmp, saved_count, attempt, listing) ==
    IF attempt > max_attempts THEN {Ended(sys, sgs, jmp, Ok, "-")}
    ELSE IF saved_count < EXPECTED_ESI_SYSTEM_COUNT
    THEN UNION {
           IF p.result # Ok THEN {p}
           ELSE {Ended(p.systems, sgs, jmp, Target, "get_saved_system_count")}
                \cup main_synchronize_esi_systems_loop(
                         p.systems, sgs, jmp, Cardinality(p.systems), attempt + 1,
                         listing) :
           p \in main_pull_all_systems(sys, sgs, jmp, listing)}
    ELSE IF saved_count = EXPECTED_ESI_SYSTEM_COUNT
    THEN {Ended(sys, sgs, jmp, Ok, "-")}
    ELSE {Ended(sys, sgs, jmp, Target, "remove_duplicate_systems")}
         \cup UNION {
                main_synchronize_esi_systems_loop(
                    keep, sgs, remove_duplicate_systems_jumps(jmp, keep), saved_count,
                    attempt + 1, listing) :
                keep \in DuplicateSurvivors(sys)}

\* synchronize_esi_systems of main.rs.
main_synchronize_esi_systems(sys, sgs, jmp, listing) ==
    {Ended(sys, sgs, jmp, Target, "get_saved_system_count")}
        \cup main_synchronize_esi_systems_loop(sys, sgs, jmp, Cardinality(sys), 1,
                                               listing)

\* What becomes of a pull_stargate_if_missing task of main.rs: pull_stargate
\* answers Ok to every failed fetch (ServerError stands for them), and a
\* failed stargate_id_exists writes nothing, like a failed CREATE of the node.
MainStargateFates ==
    {"Saved", "ServerError", "TargetNode", "TargetJump", "Aborted", "AbortedNode"}

\* pull_all_stargates: get_all_system_ids, then for every stored system a
\* pull_system_stargates task, which spawns a pull_stargate_if_missing task
\* for every stargate id of the system.
main_pull_all_stargates(sys, sgs, jmp) ==
    LET missing == esi_stargate_ids_of(sys) \ get_all_stargate_ids(sgs)
    IN  {Ended(sys, sgs, jmp, Target, "get_all_system_ids")}
        \cup {Ended(sys, pull_stargates_nodes(sgs, missing, fates),
                    pull_stargates_jumps(sys, jmp, missing, fates),
                    IF \E i \in missing : fates[i] \in {"TargetNode", "TargetJump"}
                    THEN Target ELSE Ok,
                    IF \E i \in missing : fates[i] \in {"TargetNode", "TargetJump"}
                    THEN "pull_stargate_if_missing" ELSE "-") :
                fates \in BatchFates(missing, MainStargateFates,
                                     {"TargetNode", "TargetJump"},
                                     {"Aborted", "AbortedNode"})}

RECURSIVE main_synchronize_esi_stargates_loop(_, _, _, _, _)
\* The loop of synchronize_esi_stargates from one attempt on.
main_synchronize_esi_stargates_loop(sys, sgs, jmp, saved_count, attempt) ==
    IF attempt > max_attempts THEN {Ended(sys, sgs, jmp, Ok, "-")}
    ELSE IF saved_count < EXPECTED_ESI_STARGATE_COUNT
    THEN UNION {
           IF p.result # Ok THEN {p}
           ELSE {Ended(sys, p.stargates, p.jumps, Target, "get_saved_stargate_count")}
                \cup main_synchronize_esi_stargates_loop(
                         sys, p.stargates, p.jumps, Cardinality(p.stargates),
                         attempt + 1) :
           p \in main_pull_all_stargates(sys, sgs, jmp)}
    ELSE IF saved_count = EXPECTED_ESI_STARGATE_COUNT
    THEN {Ended(sys, sgs, jmp, Ok, "-")}
    ELSE {Ended(sys, sgs, jmp, Target, "remove_duplicate_stargates")}
         \cup UNION {
                main_synchronize_esi_stargates_loop(sys, keep, jmp, saved_count,
                                                    attempt + 1) :
                keep \in DuplicateStargateSurvivors(sgs)}

\* synchronize_esi_stargates of main.rs.
main_synchronize_esi_stargates(sys, sgs, jmp) ==
    {Ended(sys, sgs, jmp, Target, "get_saved_stargate_count")}
        \cup main_synchronize_esi_stargates_loop(sys, sgs, jmp, Cardinality(sgs), 1)

\* The answers of the catalog, of the activity feeds and of EVE-Scout to the
\* service: a listing or an error.
ServiceSystemListings ==
    SomeSystemListings \cup {l \in SystemListings : l.result = Source("ServerError")}

ServiceActivityAnswers ==
    SomeActivityAnswers \cup {a \in ActivityAnswers : a.result = Source("ServerError")}

\* No signature, a wormhole between Thera and Jita, one between Jita and
\* J164710, or an error.
ServiceSignatureAnswers ==
    {a \in SignatureAnswers :
        \/ a.result = Source("ServerError")
        \/ a.result = Ok
            /\ \A i \in DOMAIN a.sigs :
                  /\ a.sigs[i].signature_type = "wormhole"
                  /\ <<a.sigs[i].in_system_id, a.sigs[i].out_system_id>>
                        \in {<<1, 3>>, <<3, 4>>}}

\* refresh_jump_risks of main.rs: as the one of sync.rs; of the statements of
\* the store the read of the system ids may fail.
main_refresh_jump_risks(sys, sgs, jmp) ==
    {Ended(r.systems, r.stargates, r.jumps, r.result, r.at) :
        r \in UNION {
            {refresh_jump_risks_run(sys, sgs, jmp, kills, jumps_, fail, {}, "release") :
                fail \in {"none", "get_all_system_ids"}, jumps_ \in ServiceActivityAnswers} :
            kills \in ServiceActivityAnswers}}

\* refresh_eve_scout_system_relations of main.rs: as the one of sync.rs; of
\* the statements of the store the first purge or a save may fail.
main_refresh_eve_scout_system_relations(sys, sgs, jmp) ==
    {Ended(r.systems, r.stargates, r.jumps, r.result, r.at) :
        r \in UNION {
            {refresh_eve_scout_system_relations_run(
                 sys, sgs, jmp, "drop_first", answer, <<>>, Ok)}
            \cup
            (IF answer.result # Ok
             THEN {refresh_eve_scout_system_relations_run(
                       sys, sgs, jmp, "none", answer, <<>>, Ok)}
             ELSE UNION {
                    {refresh_eve_scout_system_relations_run(
                         sys, sgs, jmp, "none", answer, fates, saved) :
                        saved \in JoinResults(
                            [i \in {j \in DOMAIN fates : WormholeFateIsError(fates[j])}
                                |-> WormholeFateError(fates[i])])} :
                    fates \in BatchFates(wormholes_of(answer.sigs),
                                         {"Saved", "TargetFirst"}, {"TargetFirst"}, {})}) :
            answer \in ServiceSignatureAnswers}}

\* The projection refreshes a caller unwraps: their outcomes.
RefreshOutcomes(projs, sys, jmp, graph_name, property) ==
    {refresh_graph(projs, sys, jmp, graph_name, property, fail) :
        fail \in RefreshGraphFailures \cup {"none"}}

\* main reached warp::serve(service_routes).run(..).
Serving == [tag |-> "Serving", kind |-> "-"]

\* What main leaves when it serves or panics: the store, the projections,
\* the steps it ran, those that failed, and Serving or Panic.
Booted(r, projs, steps, failed, result) ==
    [systems |-> r.systems, stargates |-> r.stargates, jumps |-> r.jumps,
     projections |-> projs, steps |-> steps, failed |-> failed, result |-> result]

\* main, from refresh_eve_scout_system_relations(..).unwrap() on; before are
\* the steps that ran and those of them that failed.
main_wormholes_on(s, projs, before, failed) ==
    UNION {
      IF w.result # Ok
      THEN {Booted(w, projs, before \o <<"refresh_eve_scout_system_relations">>,
                   failed \cup {"refresh_eve_scout_system_relations"}, Panic)}
      ELSE {IF c.result # Ok
            THEN Booted(w, c.projections,
                        before \o <<"refresh_eve_scout_system_relations",
                                    "refresh_jump_cost_graph">>,
                        failed \cup {"refresh_jump_cost_graph"}, Panic)
            ELSE Booted(w, c.projections,
                        before \o <<"refresh_eve_scout_system_relations",
                                    "refresh_jump_cost_graph", "serve">>,
                        failed, Serving) :
               c \in RefreshOutcomes(projs, w.systems, w.jumps, "system-map", "cost")} :
      w \in main_refresh_eve_scout_system_relations(s.systems, s.stargates, s.jumps)}

\* A main that ends at a failed stargates sync.
main_stargates_on_aborting(s, projs) ==
    {Booted(g, projs, <<"synchronize_esi_systems", "synchronize_esi_stargates">>,
            IF g.result # Ok THEN {"synchronize_esi_stargates"} ELSE {},
            IF g.result # Ok THEN Panic ELSE Serving) :
        g \in main_synchronize_esi_stargates(s.systems, s.stargates, s.jumps)}

\* main, from the match on synchronize_esi_stargates on: s is what the
\* systems sync left.
main_stargates_on(s, projs) ==
    UNION {
      IF g.result # Ok
      THEN main_wormholes_on(g, projs,
                             <<"synchronize_esi_systems", "synchronize_esi_stargates">>,
                             {"synchronize_esi_stargates"})
      ELSE UNION {
             IF r.result # Ok
             THEN {Booted(r, projs,
                          <<"synchronize_esi_systems", "synchronize_esi_stargates",
                            "refresh_jump_risks">>,
                          {"refresh_jump_risks"}, Panic)}
             ELSE UNION {
                    IF j.result # Ok
                    THEN {Booted(r, j.projections,
                                 <<"synchronize_esi_systems",
                                   "synchronize_esi_stargates", "refresh_jump_risks",
                                   "refresh_jump_risk_graph">>,
                                 {"refresh_jump_risk_graph"}, Panic)}
                    ELSE main_wormholes_on(
                             r, j.projections,
                             <<"synchronize_esi_systems", "synchronize_esi_stargates",
                               "refresh_jump_risks", "refresh_jump_risk_graph">>,
                             {}) :
                    j \in RefreshOutcomes(projs, r.systems, r.jumps,
                                          "jump-risk", "risk")} :
             r \in main_refresh_jump_risks(g.systems, g.stargates, g.jumps)} :
      g \in main_synchronize_esi_stargates(s.systems, s.stargates, s.jumps)}

\* main, from "Build or refresh all data" to warp::serve.
main_run(sys, sgs, jmp, projs, listing) ==
    UNION {
      IF s.result = Panic
      THEN {Booted(s, projs, <<"synchronize_esi_systems">>,
                   {"synchronize_esi_systems"}, Panic)}
      ELSE IF s.result # Ok
      THEN {Booted(s, projs, <<"synchronize_esi_systems", "serve">>,
                   {"synchronize_esi_systems"}, Serving)}
      ELSE main_stargates_on(s, projs) :
      s \in main_synchronize_esi_systems(sys, sgs, jmp, listing)}

\* The process starts: on the empty store, or once more after main panicked,
\* on the store and the projections that run left.
main ==
    /\ \/ served.op = "none"
       \/ served.op = "main" /\ served.result = Panic /\ served.after.op = "none"
    /\ \E listing \in ServiceSystemListings :
         \E b \in main_run(systems, stargates, jumps, projections, listing) :
            /\ systems' = b.systems
            /\ stargates' = b.stargates
            /\ jumps' = b.jumps
            /\ projections' = b.projections
            /\ Serve("main", b.steps, b.failed, b.result, NoRequest)
            /\ UNCHANGED <<last, risk_refreshes, calc, graph_refreshes, requests, connecting, set>>

NextBootstrap == main

SpecBootstrap == Init /\ [][NextBootstrap]_vars

----------------------------------------------------------------------------
(* Service handlers: src/src/main.rs *)

\* A response with a status and a body.
Response(status, body) == [request |-> TRUE, answered |-> TRUE, status |-> status,
                           body |-> body]

\* The handler panicked: the connection ends without a response.
NoResponse == [request |-> TRUE, answered |-> FALSE]

\* The bodies: reply(), json(&String::from("")), json(&route), and the text
\* of handle_rejection.
EmptyBody == [kind |-> "empty"]
JsonString(text) == [kind |-> "json string", text |-> text]
JsonArray(items) == [kind |-> "json array", items |-> items]
Text(text) == [kind |-> "text", text |-> text]

\* What a handler can reject with.
Rejections == {"not_found", "ReplicationError", "neo4rs::Error", "other"}

\* handle_rejection
handle_rejection(err) ==
    IF err = "not_found" THEN Response(404, Text("NOT_FOUND"))
    ELSE IF err = "ReplicationError"
    THEN Response(500, Text("INTERNAL_SERVER_ERROR"))
    ELSE IF err = "neo4rs::Error"
    THEN Response(500, Text("INTERNAL_SERVER_ERROR"))
    ELSE Response(500, Text("INTERNAL_SERVER_ERROR"))

\* What a handler leaves: the store, the projections, the calls it made,
\* those that failed, its result and the response to the request.
Handled(r, projs, steps, failed, result, response) ==
    [systems |-> r.systems, stargates |-> r.stargates, jumps |-> r.jumps,
     projections |-> projs, steps |-> steps, failed |-> failed, result |-> result,
     response |-> response]

\* The store as a handler that does not write finds and leaves it.
Store(sys, sgs, jmp) == [systems |-> sys, stargates |-> sgs, jumps |-> jmp]

\* wormholes_refresh_handler
wormholes_refresh_handler_run(sys, sgs, jmp, projs) ==
    UNION {
      IF w.result # Ok
      THEN {Handled(w, projs, <<"refresh_eve_scout_system_relations">>,
                    {"refresh_eve_scout_system_relations"}, Panic, NoResponse)}
      ELSE {IF c.result # Ok
            THEN Handled(w, c.projections,
                         <<"refresh_eve_scout_system_relations",
                           "refresh_jump_cost_graph">>,
                         {"refresh_jump_cost_graph"}, Panic, NoResponse)
            ELSE Handled(w, c.projections,
                         <<"refresh_eve_scout_system_relations",
                           "refresh_jump_cost_graph">>,
                         {}, Ok, Response(200, EmptyBody)) :
               c \in RefreshOutcomes(projs, w.systems, w.jumps, "system-map", "cost")} :
      w \in main_refresh_eve_scout_system_relations(sys, sgs, jmp)}

\* systems_risk_handler
systems_risk_handler_run(sys, sgs, jmp, projs) ==
    UNION {
      IF r.result # Ok
      THEN {Handled(r, projs, <<"refresh_jump_risks">>, {"refresh_jump_risks"},
                    r.result, handle_rejection("ReplicationError"))}
      ELSE {IF j.result # Ok
            THEN Handled(r, j.projections,
                         <<"refresh_jump_risks", "refresh_jump_risk_graph">>,
                         {"refresh_jump_risk_graph"}, Panic, NoResponse)
            ELSE Handled(r, j.projections,
                         <<"refresh_jump_risks", "refresh_jump_risk_graph">>,
                         {}, Ok, Response(200, EmptyBody)) :
               j \in RefreshOutcomes(projs, r.systems, r.jumps, "jump-risk", "risk")} :
      r \in main_refresh_jump_risks(sys, sgs, jmp)}

\* systems_refresh_handler
systems_refresh_handler_run(sys, sgs, jmp, projs, listing) ==
    {IF p.result = Panic
     THEN Handled(p, projs, <<"pull_all_systems">>, {"pull_all_systems"}, Panic,
                  NoResponse)
     ELSE IF p.result # Ok
     THEN Handled(p, projs, <<"pull_all_systems">>, {"pull_all_systems"}, p.result,
                  handle_rejection("ReplicationError"))
     ELSE Handled(p, projs, <<"pull_all_systems">>, {}, Ok, Response(200, EmptyBody)) :
        p \in main_pull_all_systems(sys, sgs, jmp, listing)}

\* stargates_refresh_handler
stargates_refresh_handler_run(sys, sgs, jmp, projs) ==
    UNION {
      IF p.result # Ok
      THEN {Handled(p, projs, <<"pull_all_stargates">>, {"pull_all_stargates"},
                    p.result, handle_rejection("ReplicationError"))}
      ELSE {IF c.result # Ok
            THEN Handled(p, c.projections,
                         <<"pull_all_stargates", "refresh_jump_cost_graph">>,
                         {"refresh_jump_cost_graph"}, Panic, NoResponse)
            ELSE Handled(p, c.projections,
                         <<"pull_all_stargates", "refresh_jump_cost_graph">>,
                         {}, Ok, Response(200, EmptyBody)) :
               c \in RefreshOutcomes(projs, p.systems, p.jumps, "system-map", "cost")} :
      p \in main_pull_all_stargates(sys, sgs, jmp)}

\* The answers of a route query: those of the store, or the error of a
\* failed statement.
RouteAnswers(found) == found \cup {DatabaseError}

\* match find_..._route(..).await.unwrap() { None => json(""), Some(route) =>
\* json(&route) }
route_reply(answer) ==
    IF answer = DatabaseError THEN NoResponse
    ELSE IF answer = NoRouteFound THEN Response(200, JsonString(""))
    ELSE Response(200, JsonArray(answer.route))

\* shortest_route_to_handler
shortest_route_to_handler_run(sys, sgs, jmp, projs, from_system_name, to_system_name) ==
    {Handled(Store(sys, sgs, jmp), projs, <<"find_shortest_route">>,
             IF answer = DatabaseError THEN {"find_shortest_route"} ELSE {},
             IF answer = DatabaseError THEN Panic ELSE Ok,
             route_reply(answer)) :
        answer \in RouteAnswers(find_shortest_route(projs, sys, from_system_name,
                                                    to_system_name))}

\* safest_route_to_handler: exists.unwrap(); the result of the build is
\* dropped (let _ =); find_safest_route(..).await.unwrap().
safest_route_to_handler_run(sys, sgs, jmp, projs, from_system_name, to_system_name) ==
    LET exists == graph_exists(projs, "jump-risk")
        checked == <<"graph_exists">>
        called  == IF exists THEN checked ELSE checked \o <<"build_jump_risk_graph">>
        \* the projections after the build, made or failed
        built   == IF exists THEN {[projections |-> projs, failed |-> {}]}
                   ELSE {[projections |-> build_graph(projs, sys, jmp, "jump-risk",
                                                      "risk"),
                          failed |-> {}],
                         [projections |-> projs,
                          failed |-> {"build_jump_risk_graph"}]}
    IN  {Handled(Store(sys, sgs, jmp), projs, checked, {"graph_exists"}, Panic,
                 NoResponse)}
        \cup UNION {
               {Handled(Store(sys, sgs, jmp), b.projections,
                        called \o <<"find_safest_route">>,
                        b.failed \cup (IF answer = DatabaseError
                                       THEN {"find_safest_route"} ELSE {}),
                        IF answer = DatabaseError THEN Panic ELSE Ok,
                        route_reply(answer)) :
                   answer \in RouteAnswers(find_safest_route(
                                  b.projections, sys, from_system_name,
                                  to_system_name))} :
               b \in built}

\* The requests followed.
MaxRequests == 1

\* The process serves: main reached warp::serve, and no panic of a handler
\* ends the process.
IsServing ==
    /\ requests < MaxRequests
    /\ served.op # "none"
    /\ ~(served.op = "main" /\ served.result = Panic)

\* A handler ends.
Handle(op, h) ==
    /\ systems' = h.systems
    /\ stargates' = h.stargates
    /\ jumps' = h.jumps
    /\ projections' = h.projections
    /\ Serve(op, h.steps, h.failed, h.result, h.response)
    /\ requests' = requests + 1
    /\ UNCHANGED <<last, risk_refreshes, calc, graph_refreshes, connecting, set>>

wormholes_refresh_handler ==
    /\ IsServing
    /\ \E h \in wormholes_refresh_handler_run(systems, stargates, jumps, projections) :
          Handle("wormholes_refresh_handler", h)

systems_risk_handler ==
    /\ IsServing
    /\ \E h \in systems_risk_handler_run(systems, stargates, jumps, projections) :
          Handle("systems_risk_handler", h)

systems_refresh_handler ==
    /\ IsServing
    /\ \E listing \in ServiceSystemListings :
         \E h \in systems_refresh_handler_run(systems, stargates, jumps, projections,
                                              listing) :
            Handle("systems_refresh_handler", h)

stargates_refresh_handler ==
    /\ IsServing
    /\ \E h \in stargates_refresh_handler_run(systems, stargates, jumps, projections) :
          Handle("stargates_refresh_handler", h)

shortest_route_to_handler ==
    /\ IsServing
    /\ \E from_system_name, to_system_name \in RouteNames :
         \E h \in shortest_route_to_handler_run(systems, stargates, jumps, projections,
                                                from_system_name, to_system_name) :
            Handle("shortest_route_to_handler", h)

safest_route_to_handler ==
    /\ IsServing
    /\ \E from_system_name, to_system_name \in RouteNames :
         \E h \in safest_route_to_handler_run(systems, stargates, jumps, projections,
                                              from_system_name, to_system_name) :
            Handle("safest_route_to_handler", h)

\* The service: main, then the handlers in any order.
NextService ==
    \/ main
    \/ wormholes_refresh_handler
    \/ systems_risk_handler
    \/ systems_refresh_handler
    \/ stargates_refresh_handler
    \/ shortest_route_to_handler
    \/ safest_route_to_handler

SpecService == Init /\ [][NextService]_vars

----------------------------------------------------------------------------
(* Connection bootstrap: src/src/database.rs *)

\* At most this many attempts are asked for.
MaxRetries == 5

\* The variables a connection leaves alone.
service_vars ==
    <<systems, stargates, jumps, last, risk_refreshes, calc, projections, served,
      graph_refreshes, requests>>

\* The errors Graph::new can return.
Neo4rsErrorKinds == {"ConnectionError", "AuthenticationError"}

\* Ok(Arc::new(graph))
Connected == [tag |-> "Ok", kind |-> "Graph"]

\* Err(Error::Client(e))
ClientError(e) == [tag |-> "Error", kind |-> "Client", source |-> e]

\* A sleep for every failed attempt, the last included.
sleeps_after_every_failure(attempt, max_retries) == attempt <= max_retries

\* if attempt < max_retries { sleep(5 s) }
sleeps_before_next_attempt(attempt, max_retries) == attempt < max_retries

\* The next iteration of for attempt in 1..=max_retries, or the return after
\* the loop: Err(Error::Client(last_error.unwrap_or(ConnectionError))).
next_attempt(c) ==
    IF c.attempt + 1 <= c.max_retries
    THEN [c EXCEPT !.attempt = c.attempt + 1, !.pc = "Graph::new"]
    ELSE [c EXCEPT !.pc = "returned",
                   !.result = ClientError(IF c.last_error.some THEN c.last_error.kind
                                          ELSE "ConnectionError")]

\* The call, up to the first Graph::new.
get_graph_client_with_retry ==
    /\ connecting.pc = "idle"
    /\ \E max_retries \in 0..MaxRetries :
          connecting' = next_attempt([connecting EXCEPT !.max_retries = max_retries])
    /\ UNCHANGED <<service_vars, set>>

\* match Graph::new(&uri, user, pass).await
graph_new ==
    /\ connecting.pc = "Graph::new"
    /\ \/ connecting' = [connecting EXCEPT !.pc = "returned", !.result = Connected,
                                           !.trace = Append(@, "connected")]
       \/ \E err \in Neo4rsErrorKinds :
            LET failed == [connecting EXCEPT !.trace = Append(@, err),
                                             !.last_error = [some |-> TRUE,
                                                             kind |-> err]]
            IN  connecting' =
                  IF sleeps_before_next_attempt(connecting.attempt,
                                                connecting.max_retries)
                  THEN [failed EXCEPT !.pc = "sleep"]
                  ELSE next_attempt(failed)
    /\ UNCHANGED <<service_vars, set>>

\* tokio::time::sleep(Duration::from_secs(5)).await
sleep ==
    /\ connecting.pc = "sleep"
    /\ connecting' = next_attempt([connecting EXCEPT !.trace = Append(@, "sleep")])
    /\ UNCHANGED <<service_vars, set>>

NextConnect == get_graph_client_with_retry \/ graph_new \/ sleep

\* The connection attempt and the sleep end.
SpecConnect ==
    Init /\ [][NextConnect]_vars /\ WF_vars(graph_new) /\ WF_vars(sleep)

----------------------------------------------------------------------------
(* Task groups: src/src/sync.rs *)

\* Semaphore::new(50)
SemaphorePermits == 50

\* The largest batch followed.
MaxBatch == 52

\* The numbers of ids a batch is called with.
BatchSizes == 0..3 \cup {MaxBatch}

\* The variables a batch of tasks leaves alone: the writes of the tasks are
\* followed by the reconciler.
batch_vars == <<service_vars, connecting>>

\* let mut set = JoinSet::new(), with the ids still to spawn.  Tasks are
\* counted by where they stand: spawned and not yet past the permit
\* (waiting), in flight (running), returned and not yet joined (finished_ok,
\* finished_err), joined, aborted.
NewJoinSet(op, semaphore, ids) ==
    [pc |-> IF ids = 0 THEN "joining" ELSE "spawning", op |-> op,
     semaphore |-> semaphore, permits |-> IF semaphore THEN SemaphorePermits ELSE 0,
     to_spawn |-> ids, waiting |-> 0, running |-> 0, finished_ok |-> 0,
     finished_err |-> 0, failed |-> 0, joined |-> 0, aborted |-> 0, left |-> 0,
     result |-> [tag |-> "Pending", kind |-> "-"]]

\* pull_stargates, up to its for loop.
pull_stargates ==
    /\ set.pc = "idle"
    /\ \E ids \in BatchSizes : set' = NewJoinSet("pull_stargates", TRUE, ids)
    /\ UNCHANGED batch_vars

\* pull_systems, up to its for loop.
pull_systems ==
    /\ set.pc = "idle"
    /\ \E ids \in BatchSizes : set' = NewJoinSet("pull_systems", FALSE, ids)
    /\ UNCHANGED batch_vars

\* set.spawn(..) in the for loop; after the last id the caller awaits
\* error_if_any_member_has_error.
spawn ==
    /\ set.pc = "spawning"
    /\ set' = [set EXCEPT !.to_spawn = @ - 1, !.waiting = @ + 1,
                          !.pc = IF set.to_spawn = 1 THEN "joining" ELSE "spawning"]
    /\ UNCHANGED batch_vars

\* A task starts whatever the permits.
may_start_without_permit(s) == TRUE

\* A semaphore whose permits are used up: a task goes on while fewer tasks
\* than there are permits have started.
may_start_on_unused_permit(s) ==
    \/ ~s.semaphore
    \/ s.running + s.finished_ok + s.finished_err + s.joined + s.aborted
           < SemaphorePermits

\* let _permit = semaphore.acquire().await.unwrap(): a task of
\* pull_stargates goes on when a permit is left; a task of pull_systems
\* acquires nothing.
may_start(s) == ~s.semaphore \/ s.permits > 0

\* A spawned task reaches pull_stargate (pull_system).
acquire ==
    /\ set.pc \in {"spawning", "joining"}
    /\ set.waiting > 0
    /\ may_start(set)
    /\ set' = [set EXCEPT !.waiting = @ - 1, !.running = @ + 1,
                          !.permits = IF set.semaphore THEN @ - 1 ELSE @]
    /\ UNCHANGED batch_vars

\* A task returns, Ok or Err, and drops its permit.
task_returns ==
    /\ set.pc \in {"spawning", "joining"}
    /\ set.running > 0
    /\ \/ set' = [set EXCEPT !.running = @ - 1, !.finished_ok = @ + 1,
                             !.permits = IF set.semaphore THEN @ + 1 ELSE @]
       \/ /\ set.failed < MaxFaults
          /\ set' = [set EXCEPT !.running = @ - 1, !.finished_err = @ + 1,
                                !.failed = @ + 1,
                                !.permits = IF set.semaphore THEN @ + 1 ELSE @]
    /\ UNCHANGED batch_vars

\* The tasks error_if_any_member_has_error leaves unfinished when it returns
\* after a task that returned Err.
left_after_error(s) == s.waiting + s.running

\* while let Some(res) = set.join_next().await: a task that returned is
\* joined; Err(e) returns Some(Err(e)) at once, and the caller returns and
\* drops the set; None, with no task left, returns Some(Ok(())).
join_next ==
    /\ set.pc = "joining"
    /\ \/ /\ set.finished_ok > 0
          /\ set' = [set EXCEPT !.finished_ok = @ - 1, !.joined = @ + 1]
       \/ /\ set.finished_err > 0
          /\ set' = [set EXCEPT !.finished_err = @ - 1, !.joined = @ + 1,
                                !.pc = "returned",
                                !.left = left_after_error(set),
                                !.result = [tag |-> "Err", kind |-> "-"]]
       \/ /\ set.waiting + set.running + set.finished_ok + set.finished_err = 0
          /\ set' = [set EXCEPT !.pc = "returned", !.result = Ok]
    /\ UNCHANGED batch_vars

\* Dropping the JoinSet aborts the tasks it still holds: a task in flight
\* ends at its next await and drops its permit, a task waiting for a permit
\* never gets one.
abort ==
    /\ set.pc = "returned"
    /\ \/ /\ set.running > 0
          /\ set' = [set EXCEPT !.running = @ - 1, !.aborted = @ + 1,
                                !.permits = IF set.semaphore THEN @ + 1 ELSE @]
       \/ /\ set.waiting > 0
          /\ set' = [set EXCEPT !.waiting = @ - 1, !.aborted = @ + 1]
    /\ UNCHANGED batch_vars

NextFanOut ==
    \/ pull_stargates
    \/ pull_systems
    \/ spawn
    \/ acquire
    \/ task_returns
    \/ join_next
    \/ abort

SpecFanOut == Init /\ [][NextFanOut]_vars

\* The numbers of ids pull_stargates is followed to its end with: none, fewer
\* than the permits, one more than the permits.
StargateBatchSizes == 0..2 \cup {SemaphorePermits + 1}

\* pull_stargates, through its for loop: the loop awaits nothing and leaves
\* the semaphore alone, so a task polled during the loop is a task polled
\* after it.
pull_stargates_spawned ==
    /\ set.pc = "idle"
    /\ \E ids \in StargateBatchSizes :
         set' = [NewJoinSet("pull_stargates", TRUE, ids)
                    EXCEPT !.pc = "joining", !.to_spawn = 0, !.waiting = ids]
    /\ UNCHANGED batch_vars

\* pull_stargates returns and drops the JoinSet, which aborts every task it
\* still holds: the tasks in flight end and drop their permits, the tasks
\* waiting for a permit end without one.
drop_join_set ==
    /\ set.pc = "returned"
    /\ left_after_error(set) > 0
    /\ set' = [set EXCEPT !.running = 0, !.waiting = 0,
                          !.aborted = @ + left_after_error(set),
                          !.permits = IF set.semaphore THEN @ + set.running ELSE @]
    /\ UNCHANGED batch_vars

NextPullStargates ==
    \/ pull_stargates_spawned
    \/ acquire
    \/ task_returns
    \/ join_next
    \/ drop_join_set

\* A step of a task or of the caller of the batch.
poll == acquire \/ task_returns \/ join_next \/ drop_join_set

\* While a task or the caller can go on, the runtime polls one of them, and
\* a request or a statement of the store that was sent ends.
SpecPullStargates ==
    Init /\ [][NextPullStargates]_vars /\ WF_vars(poll)

----------------------------------------------------------------------------
(* The activity pulls called on their own: src/src/sync.rs *)

\* pull_system_kills, run to its return: kills is the answer of
\* get_system_kills, fail whether a task failed, done the tasks that wrote
\* before the return.
pull_system_kills_run(sys, sgs, jmp, kills, fail, done) ==
    IF kills.result # Ok
    THEN Outcome(sys, sgs, jmp, kills.result, "get_system_kills", {}, <<>>)
    ELSE IF fail
    THEN Outcome(pull_system_kills_nodes(sys, kills.listing, done), sgs, jmp, Target,
                 "set_last_hour_system_kills", {}, <<>>)
    ELSE Outcome(pull_system_kills_nodes(sys, kills.listing, DOMAIN kills.listing),
                 sgs, jmp, Ok, "-", {}, <<>>)

\* pull_last_hour_of_jumps, run to its return.
pull_last_hour_of_jumps_run(sys, sgs, jmp, jumps_, fail, done) ==
    IF jumps_.result # Ok
    THEN Outcome(sys, sgs, jmp, jumps_.result, "get_system_jumps", {}, <<>>)
    ELSE IF fail
    THEN Outcome(pull_last_hour_of_jumps_nodes(sys, jumps_.listing, done), sgs, jmp,
                 Target, "set_last_hour_system_jumps", {}, <<>>)
    ELSE Outcome(pull_last_hour_of_jumps_nodes(sys, jumps_.listing,
                                               DOMAIN jumps_.listing),
                 sgs, jmp, Ok, "-", {}, <<>>)

\* The courses of a batch over ids: no task fails, or one fails after the
\* tasks of done have written.
BatchCourses(ids) ==
    {[fail |-> FALSE, done |-> ids]}
        \cup {[fail |-> TRUE, done |-> done] : done \in SUBSET ids \ {ids}}

\* The answers of the activity feeds followed here: the listings name Turnur
\* or Jita.
PullActivityAnswers ==
    {a \in ActivityAnswers : DOMAIN a.listing \subseteq SavedSystemIds}

pull_system_kills ==
    /\ \E kills \in PullActivityAnswers :
      \E course \in BatchCourses(DOMAIN kills.listing) :
         Return("pull_system_kills",
                pull_system_kills_run(systems, stargates, jumps, kills, course.fail,
                                      course.done),
                Given(<<>>, kills.listing, <<>>))
    /\ UNCHANGED risk_refreshes

pull_last_hour_of_jumps ==
    /\ \E jumps_ \in PullActivityAnswers :
      \E course \in BatchCourses(DOMAIN jumps_.listing) :
         Return("pull_last_hour_of_jumps",
                pull_last_hour_of_jumps_run(systems, stargates, jumps, jumps_,
                                            course.fail, course.done),
                Given(<<>>, <<>>, jumps_.listing))
    /\ UNCHANGED risk_refreshes

NextActivity ==
    \/ synchronize_esi_systems_some
    \/ synchronize_esi_stargates_ok
    \/ pull_system_kills
    \/ pull_last_hour_of_jumps

SpecActivity == Init /\ [][NextActivity]_vars

----------------------------------------------------------------------------
(* A stargates sync that is cancelled: src/src/sync.rs *)

\* The future was dropped at an await: the sync returns nothing.
Cancelled == [tag |-> "Cancelled", kind |-> "-"]

\* The awaits of synchronize_esi_stargates at which it can be dropped after
\* the get_all_systems and get_all_stargate_ids it starts with.
StargatesSyncAwaits ==
    {"remove_stargates_by_id", "pull_stargates", "remove_duplicate_stargates",
     "get_saved_stargate_count"}

\* What became of a pull_stargate task when the sync was dropped during
\* pull_stargates: it had saved, had not written, or had created the node
\* and not yet the JUMP relationship.
CancelledStargateFates == {"Saved", "Aborted", "AbortedNode"}

\* synchronize_esi_stargates, dropped at the await at; committed tells
\* whether the statement of that await was executed, fates how far the tasks
\* of pull_stargates came, keep the nodes remove_duplicate_stargates leaves.
synchronize_esi_stargates_cancelled_run(sys, sgs, jmp, at, committed, fates, keep) ==
    LET esi_stargate_ids == esi_stargate_ids_of(sys)
        db_stargate_ids  == get_all_stargate_ids(sgs)
        to_remove        == stargates_to_remove(db_stargate_ids, esi_stargate_ids)
        sgs1 == IF to_remove # {} THEN remove_stargates_by_id(sgs, to_remove) ELSE sgs
        sgs2 == pull_stargates_nodes(sgs1, DOMAIN fates, fates)
        jmp2 == pull_stargates_jumps(sys, jmp, DOMAIN fates, fates)
    IN  IF at = "remove_stargates_by_id"
            THEN Outcome(sys, IF committed THEN sgs1 ELSE sgs, jmp, Cancelled, at,
                         esi_stargate_ids, <<>>)
        ELSE IF at = "pull_stargates"
            THEN Outcome(sys, sgs2, jmp2, Cancelled, at, esi_stargate_ids, fates)
        ELSE IF at = "remove_duplicate_stargates"
            THEN Outcome(sys, IF committed THEN keep ELSE sgs2, jmp2, Cancelled, at,
                         esi_stargate_ids, fates)
        ELSE Outcome(sys, keep, jmp2, Cancelled, at, esi_stargate_ids, fates)

synchronize_esi_stargates_cancelled ==
    LET esi_stargate_ids == esi_stargate_ids_of(systems)
        db_stargate_ids  == get_all_stargate_ids(stargates)
        to_remove == stargates_to_remove(db_stargate_ids, esi_stargate_ids)
        to_add    == stargates_to_add(db_stargate_ids, esi_stargate_ids)
        reached   == StargatesSyncAwaits
                       \ ((IF to_remove = {} THEN {"remove_stargates_by_id"} ELSE {})
                          \cup (IF to_add = {} THEN {"pull_stargates"} ELSE {}))
    IN  \E at \in reached, committed \in BOOLEAN :
          \E fates \in IF at = "remove_stargates_by_id" THEN {<<>>}
                       ELSE IF at = "pull_stargates"
                       THEN [to_add -> CancelledStargateFates]
                       ELSE {[i \in to_add |-> "Saved"]} :
            \E keep \in DuplicateStargateSurvivors(pull_stargates_nodes(
                            remove_stargates_by_id(stargates, to_remove),
                            DOMAIN fates, fates)) :
              /\ Return("synchronize_esi_stargates",
                        synchronize_esi_stargates_cancelled_run(
                            systems, stargates, jumps, at, committed, fates, keep),
                        Given(<<>>, <<>>, <<>>))
              /\ UNCHANGED risk_refreshes

NextCancelledSync ==
    \/ synchronize_esi_systems_some
    \/ synchronize_esi_stargates_ok
    \/ synchronize_esi_stargates_cancelled

SpecCancelledSync == Init /\ [][NextCancelledSync]_vars

----------------------------------------------------------------------------
(* The HTTP clients called on their own: src/src/esi.rs, src/src/eve_scout.rs *)

\* The status codes a server answers with.
Statuses == {200, 201, 204, 304, 400, 403, 404, 420, 429, 500, 502, 503, 599}

\* The bodies a server answers with:
\*   document   JSON the type the caller asks for deserializes from
\*   error      a JSON object that says what went wrong
\*   text       not JSON
\*   empty      no body
Bodies == {"document", "error", "text", "empty"}

\* What client.get(url).send().await gives: a response, or no response (the
\* request failed before one arrived).
Responses ==
    [received : {TRUE}, status : Statuses, body : Bodies]
        \cup {[received |-> FALSE, status |-> 0, body |-> "empty"]}

\* StatusCode::is_success
is_success(status) == status \in 200..299

\* What a client call returns: the value deserialized from the body, a
\* reqwest::Error, or an error that carries the status and the body.
Parsed(body) == [tag |-> "Ok", kind |-> "-", value |-> <<"parsed", body>>]
ReqwestError(kind) == [tag |-> "reqwest::Error", kind |-> kind, value |-> <<>>]
RequestFailed(e) == [tag |-> "Request", kind |-> e.kind, value |-> <<>>]
StatusError(tag, status, body) == [tag |-> tag, kind |-> status, value |-> <<"text", body>>]

\* Response::json: the body is deserialized whatever the status is.
json(response) ==
    IF response.body = "document" THEN Parsed(response.body) ELSE ReqwestError("decode")

\* get_system_details, get_stargate_details and get_system_ids have the same
\* body: send().await?, then response.json().await.
esi_get(response) ==
    IF ~response.received THEN ReqwestError("send") ELSE json(response)

\* process_eve_scout_response
process_eve_scout_response(response) ==
    LET status == response.status
    IN  IF is_success(status)
        THEN LET parsed == json(response)
             IN  IF parsed.tag = "Ok" THEN parsed ELSE RequestFailed(parsed)
        ELSE IF status \in 500..599
            THEN StatusError("ServerError", status, response.body)
        ELSE StatusError("UnexpectedError", status, response.body)

\* get_public_signatures
eve_scout_get(response) ==
    IF ~response.received THEN RequestFailed(ReqwestError("send"))
    ELSE process_eve_scout_response(response)

\* A request whose response has arrived and is not yet handled.
Sent(response) ==
    [op |-> "send", response |-> response, result |-> ReqwestError("-")]

\* The call op returned result on this response.
Called(op, response, result) ==
    [op |-> op, response |-> response, result |-> result]

InitClient ==
    /\ systems = {}
    /\ stargates = {}
    /\ jumps = EmptyBag
    /\ last \in {Sent(r) : r \in Responses}
    /\ risk_refreshes = 0
    /\ calc = NoCalc
    /\ projections = NoProjections
    /\ served = NotServed
    /\ graph_refreshes = 0
    /\ requests = 0
    /\ connecting = NotConnecting
    /\ set = NoJoinSet

client_vars ==
    <<systems, stargates, jumps, risk_refreshes, calc, projections, served,
      graph_refreshes, requests, connecting, set>>

get_system_details ==
    /\ last.op = "send"
    /\ last' = Called("get_system_details", last.response, esi_get(last.response))
    /\ UNCHANGED client_vars

get_stargate_details ==
    /\ last.op = "send"
    /\ last' = Called("get_stargate_details", last.response, esi_get(last.response))
    /\ UNCHANGED client_vars

get_system_ids ==
    /\ last.op = "send"
    /\ last' = Called("get_system_ids", last.response, esi_get(last.response))
    /\ UNCHANGED client_vars

get_public_signatures ==
    /\ last.op = "send"
    /\ last' = Called("get_public_signatures", last.response,
                      eve_scout_get(last.response))
    /\ UNCHANGED client_vars

NextClient ==
    \/ get_system_details
    \/ get_stargate_details
    \/ get_system_ids
    \/ get_public_signatures

SpecClient == InitClient /\ [][NextClient]_vars

----------------------------------------------------------------------------
(* The risk engine on a store with wormholes *)

\* The wormhole refresh when EVE-Scout answers and nothing fails.
refresh_eve_scout_system_relations_some ==
    refresh_eve_scout_system_relations_in(
        {}, {a \in ServiceSignatureAnswers : a.result = Ok}, {"Saved"})

NextWormholeRisks ==
    \/ synchronize_esi_systems_some
    \/ synchronize_esi_stargates_ok
    \/ refresh_eve_scout_system_relations_some
    \/ refresh_jump_risks_some

SpecWormholeRisks == Init /\ [][NextWormholeRisks]_vars

----------------------------------------------------------------------------
(* The save_stargate tasks of one pull_stargates, statement by statement *)

\* The stargate ids pull_stargates is called with.
PulledStargateIds == {23, 24, 32}

\* What get_stargate_details answers for one id: the parent and the
\* destination are those the catalog says, Turnur and Jita either way.
GateDetails(stargate_id, pair) ==
    [stargate_id |-> stargate_id, system_id |-> pair[1],
     destination |-> [system_id |-> pair[2]]]

\* The catalogs of a pull: the details of every id it is called with.
GateCatalogs ==
    UNION {[ids -> {<<2, 3>>, <<3, 2>>}] : ids \in SUBSET PulledStargateIds \ {{}}}

\* The tasks of a pull, each before its first statement.
SavingSet(catalog) ==
    [pc |-> "saving", catalog |-> catalog,
     task |-> [id \in DOMAIN catalog |-> "spawned"]]

\* Turnur and Jita are stored, no stargate and no JUMP is; pull_stargates has
\* spawned its tasks.
InitSaveStargates ==
    /\ systems = pull_systems_nodes({}, SavedSystemIds)
    /\ stargates = {}
    /\ jumps = EmptyBag
    /\ last = NoOp
    /\ risk_refreshes = 0
    /\ calc = NoCalc
    /\ projections = NoProjections
    /\ served = NotServed
    /\ graph_refreshes = 0
    /\ requests = 0
    /\ connecting = NotConnecting
    /\ set \in {SavingSet(catalog) : catalog \in GateCatalogs}

\* The stargate the task of this id saves.
SavedStargate(id) == StargateFrom(GateDetails(id, set.catalog[id]))

\* save_stargate, first statement: the node is created.
save_stargate_create ==
    /\ set.pc = "saving"
    /\ \E id \in DOMAIN set.task :
         /\ set.task[id] = "spawned"
         /\ stargates' = save_stargate_node(stargates, SavedStargate(id))
         /\ set' = [set EXCEPT !.task[id] = "created"]
    /\ UNCHANGED <<systems, jumps, last, risk_refreshes, calc, projections, served,
                   graph_refreshes, requests, connecting>>

\* create_system_jump_if_missing, the query of jump_exists: the task is done
\* when the relationship exists.
save_stargate_jump_exists ==
    /\ set.pc = "saving"
    /\ \E id \in DOMAIN set.task :
         /\ set.task[id] = "created"
         /\ set' = [set EXCEPT !.task[id] =
                       IF jump_exists(systems, jumps, SavedStargate(id).system_id,
                                      SavedStargate(id).destination_system_id)
                       THEN "done" ELSE "missing"]
    /\ UNCHANGED <<systems, stargates, jumps, last, risk_refreshes, calc, projections,
                   served, graph_refreshes, requests, connecting>>

\* create_system_jump_if_missing, the statement of create_system_jump, run
\* by a task whose query found no relationship.
save_stargate_create_system_jump ==
    /\ set.pc = "saving"
    /\ \E id \in DOMAIN set.task :
         /\ set.task[id] = "missing"
         /\ jumps' = create_system_jump(systems, jumps, SavedStargate(id).system_id,
                                        SavedStargate(id).destination_system_id)
         /\ set' = [set EXCEPT !.task[id] = "done"]
    /\ UNCHANGED <<systems, stargates, last, risk_refreshes, calc, projections, served,
                   graph_refreshes, requests, connecting>>

\* error_if_any_member_has_error has joined every task.
pull_stargates_joined ==
    /\ set.pc = "saving"
    /\ \A id \in DOMAIN set.task : set.task[id] = "done"
    /\ set' = [set EXCEPT !.pc = "joined"]
    /\ UNCHANGED <<systems, stargates, jumps, last, risk_refreshes, calc, projections,
                   served, graph_refreshes, requests, connecting>>

NextSaveStargates ==
    \/ save_stargate_create
    \/ save_stargate_jump_exists
    \/ save_stargate_create_system_jump
    \/ pull_stargates_joined

SpecSaveStargates == InitSaveStargates /\ [][NextSaveStargates]_vars

----------------------------------------------------------------------------
(* refresh_jump_risks, await by await *)

\* The store the refresh runs on: Turnur and Jita, their stargates and the
\* JUMPs of these.
PhaseStargateFates == [id \in StargateIds |-> "Saved"]
PhaseSystems == pull_systems_nodes({}, SavedSystemIds)
PhaseStargates == pull_stargates_nodes({}, StargateIds, PhaseStargateFates)
PhaseJumps == pull_stargates_jumps(PhaseSystems, EmptyBag, StargateIds, PhaseStargateFates)

\* The answers of the activity feeds followed here: a count for Turnur and
\* for Jita, or an error.
PhaseActivityAnswers ==
    {[result |-> Ok, listing |-> l] : l \in [SavedSystemIds -> {0, MaxCount}]}
        \cup {[result |-> Source("ServerError"), listing |-> <<>>]}

\* A refresh at one of its awaits.  todo are the spawned tasks of the
\* JoinSet that have not completed; kills_done, jumps_done and risks_done the
\* tasks that have written; before the JUMPs when the refresh was called.
RiskRefresh(pc, system_kills, system_jumps, todo, kills_done, jumps_done, risks_done,
            before, at, result) ==
    [pc |-> pc, system_kills |-> system_kills, system_jumps |-> system_jumps,
     todo |-> todo, kills_done |-> kills_done, jumps_done |-> jumps_done,
     risks_done |-> risks_done, before |-> before, at |-> at, result |-> result]

\* The refresh has returned result from the call at; the JoinSet is dropped
\* and its tasks are aborted.
RiskRefreshReturns(result, at) ==
    RiskRefresh("returned", set.system_kills, set.system_jumps, {}, set.kills_done,
                set.jumps_done, set.risks_done, set.before, at, result)

\* A loop of error_if_any_member_has_error that goes on without joining.
all_joined_at_once(todo) == TRUE

\* error_if_any_member_has_error returns Some(Ok(())) when join_next returns
\* None: every task of the set was joined.
all_joined(todo) == todo = {}

InitRiskPhases ==
    /\ systems = PhaseSystems
    /\ stargates = PhaseStargates
    /\ jumps = PhaseJumps
    /\ last = NoOp
    /\ risk_refreshes = 0
    /\ calc = NoCalc
    /\ projections = NoProjections
    /\ served = NotServed
    /\ graph_refreshes = 0
    /\ requests = 0
    /\ connecting = NotConnecting
    /\ set = NoJoinSet

phase_vars ==
    <<stargates, last, calc, projections, served, graph_refreshes, requests, connecting>>

\* refresh_jump_risks is called.
refresh_jump_risks_called ==
    /\ set.pc = "idle"
    /\ risk_refreshes < MaxRiskRefreshes
    /\ risk_refreshes' = risk_refreshes + 1
    /\ set' = RiskRefresh("get_system_kills", <<>>, <<>>, {}, {}, {}, {}, jumps, "-",
                          [tag |-> "Pending", kind |-> "-"])
    /\ UNCHANGED <<systems, jumps>>
    /\ UNCHANGED phase_vars

\* pull_system_kills: get_system_kills(&client).await?, then a task per
\* entry of the listing.
get_system_kills ==
    /\ set.pc = "get_system_kills"
    /\ \E kills \in PhaseActivityAnswers :
         set' = IF kills.result # Ok
                THEN RiskRefreshReturns(kills.result, "get_system_kills")
                ELSE [set EXCEPT !.pc = "set_last_hour_system_kills",
                                 !.system_kills = kills.listing,
                                 !.todo = DOMAIN kills.listing]
    /\ UNCHANGED <<systems, jumps, risk_refreshes>>
    /\ UNCHANGED phase_vars

\* A set_last_hour_system_kills task completes: it has written, or its
\* statement failed and the pull returns the error.
set_last_hour_system_kills_task ==
    /\ set.pc = "set_last_hour_system_kills"
    /\ \E id \in set.todo :
         \/ /\ systems' = set_last_hour_system_kills(systems, id, set.system_kills[id])
            /\ set' = [set EXCEPT !.todo = @ \ {id}, !.kills_done = @ \cup {id}]
         \/ /\ set' = RiskRefreshReturns(Target, "set_last_hour_system_kills")
            /\ UNCHANGED systems
    /\ UNCHANGED <<jumps, risk_refreshes>>
    /\ UNCHANGED phase_vars

\* pull_system_kills returns Ok(galaxy_kills).
pull_system_kills_joined ==
    /\ set.pc = "set_last_hour_system_kills"
    /\ all_joined(set.todo)
    /\ set' = [set EXCEPT !.pc = "get_system_jumps", !.todo = {}]
    /\ UNCHANGED <<systems, jumps, risk_refreshes>>
    /\ UNCHANGED phase_vars

\* pull_last_hour_of_jumps: get_system_jumps(&client).await?, then a task
\* per entry of the listing.
get_system_jumps ==
    /\ set.pc = "get_system_jumps"
    /\ \E jumps_ \in PhaseActivityAnswers :
         set' = IF jumps_.result # Ok
                THEN RiskRefreshReturns(jumps_.result, "get_system_jumps")
                ELSE [set EXCEPT !.pc = "set_last_hour_system_jumps",
                                 !.system_jumps = jumps_.listing,
                                 !.todo = DOMAIN jumps_.listing]
    /\ UNCHANGED <<systems, jumps, risk_refreshes>>
    /\ UNCHANGED phase_vars

\* A set_last_hour_system_jumps task completes.
set_last_hour_system_jumps_task ==
    /\ set.pc = "set_last_hour_system_jumps"
    /\ \E id \in set.todo :
         \/ /\ systems' = set_last_hour_system_jumps(systems, id, set.system_jumps[id])
            /\ set' = [set EXCEPT !.todo = @ \ {id}, !.jumps_done = @ \cup {id}]
         \/ /\ set' = RiskRefreshReturns(Target, "set_last_hour_system_jumps")
            /\ UNCHANGED systems
    /\ UNCHANGED <<jumps, risk_refreshes>>
    /\ UNCHANGED phase_vars

\* pull_last_hour_of_jumps returns Ok(galaxy_jumps); get_all_system_ids
\* answers or fails; a set_system_jump_risk task is spawned per stored id.
pull_last_hour_of_jumps_joined ==
    /\ set.pc = "set_last_hour_system_jumps"
    /\ all_joined(set.todo)
    /\ \/ set' = [set EXCEPT !.pc = "set_system_jump_risk",
                             !.todo = get_all_system_ids(systems)]
       \/ set' = RiskRefreshReturns(Target, "get_all_system_ids")
    /\ UNCHANGED <<systems, jumps, risk_refreshes>>
    /\ UNCHANGED phase_vars

\* A set_system_jump_risk task completes: the baseline is that of the two
\* listings.
set_system_jump_risk_task ==
    /\ set.pc = "set_system_jump_risk"
    /\ \E id \in set.todo :
         \/ /\ jumps' = set_system_jump_risk(
                            systems, jumps, id,
                            baseline_jump_risk(
                                Galaxy(set.system_kills, DOMAIN set.system_kills),
                                Galaxy(set.system_jumps, DOMAIN set.system_jumps)),
                            "release")
            /\ set' = [set EXCEPT !.todo = @ \ {id}, !.risks_done = @ \cup {id}]
         \/ /\ set' = RiskRefreshReturns(Target, "set_system_jump_risk")
            /\ UNCHANGED jumps
    /\ UNCHANGED <<systems, risk_refreshes>>
    /\ UNCHANGED phase_vars

\* refresh_jump_risks returns Ok(()).
refresh_jump_risks_joined ==
    /\ set.pc = "set_system_jump_risk"
    /\ all_joined(set.todo)
    /\ set' = RiskRefreshReturns(Ok, "-")
    /\ UNCHANGED <<systems, jumps, risk_refreshes>>
    /\ UNCHANGED phase_vars

NextRiskPhases ==
    \/ refresh_jump_risks_called
    \/ get_system_kills
    \/ set_last_hour_system_kills_task
    \/ pull_system_kills_joined
    \/ get_system_jumps
    \/ set_last_hour_system_jumps_task
    \/ pull_last_hour_of_jumps_joined
    \/ set_system_jump_risk_task
    \/ refresh_jump_risks_joined

SpecRiskPhases == InitRiskPhases /\ [][NextRiskPhases]_vars

----------------------------------------------------------------------------
(* error_if_any_member_has_error, task by task *)

\* At most this many tasks in the set.
MaxMembers == 3

\* The error the task i returns when it fails.
MemberErrors == <<"first", "second", "third", "fourth">>

Running == [tag |-> "Running", kind |-> "-"]
MemberErr(i) == [tag |-> "Err", kind |-> MemberErrors[i]]
\* The task panicked: join_next gives Err(JoinError).
JoinError == [tag |-> "JoinError", kind |-> "panic"]

\* A JoinSet with the tasks 1..n spawned, numbered in the order of the
\* spawns, when error_if_any_member_has_error is called: completed lists the
\* tasks in the order they completed, joined counts those join_next gave.
MemberSet(n) ==
    [pc |-> "joining", outcome |-> [i \in 1..n |-> Running], completed |-> <<>>,
     joined |-> 0, result |-> [tag |-> "Pending", kind |-> "-"]]

InitMembers ==
    /\ systems = {}
    /\ stargates = {}
    /\ jumps = EmptyBag
    /\ last = NoOp
    /\ risk_refreshes = 0
    /\ calc = NoCalc
    /\ projections = NoProjections
    /\ served = NotServed
    /\ graph_refreshes = 0
    /\ requests = 0
    /\ connecting = NotConnecting
    /\ set \in {MemberSet(n) : n \in 0..MaxMembers}

\* A join_next that gives the completed tasks in the order of their spawns.
next_joined_in_spawn_order(s) ==
    CHOOSE i \in DOMAIN s.outcome :
        /\ \E k \in (s.joined + 1)..Len(s.completed) : s.completed[k] = i
        /\ \A k \in (s.joined + 1)..Len(s.completed) : s.completed[k] >= i

\* set.join_next().await: the tasks are given in the order they complete.
next_joined(s) == s.completed[s.joined + 1]

\* A task of the set completes: it returns Ok(()) or Err(e), or panics.
member_completes ==
    /\ set.pc = "joining"
    /\ \E i \in DOMAIN set.outcome, r \in {Ok, JoinError} \cup {MemberErr(j) : j \in DOMAIN set.outcome} :
         /\ set.outcome[i] = Running
         /\ r.tag = "Err" => r = MemberErr(i)
         /\ set' = [set EXCEPT !.outcome[i] = r, !.completed = Append(@, i)]
    /\ UNCHANGED batch_vars

\* while let Some(res) = set.join_next().await { if let Err(e) = res.unwrap()
\* { return Some(Err(e)) } }: a completed task is joined.
error_if_any_member_has_error_some ==
    /\ set.pc = "joining"
    /\ set.joined < Len(set.completed)
    /\ LET res == set.outcome[next_joined(set)]
       IN  set' = CASE res = Ok -> [set EXCEPT !.joined = @ + 1]
                    [] res = JoinError -> [set EXCEPT !.joined = @ + 1, !.pc = "panicked"]
                    [] OTHER -> [set EXCEPT !.joined = @ + 1, !.pc = "returned",
                                            !.result = res]
    /\ UNCHANGED batch_vars

\* join_next gives None, the set is empty: Some(Ok(())).
error_if_any_member_has_error_none ==
    /\ set.pc = "joining"
    /\ set.joined = Cardinality(DOMAIN set.outcome)
    /\ set' = [set EXCEPT !.pc = "returned", !.result = Ok]
    /\ UNCHANGED batch_vars

NextMembers ==
    \/ member_completes
    \/ error_if_any_member_has_error_some
    \/ error_if_any_member_has_error_none

SpecMembers == InitMembers /\ [][NextMembers]_vars

----------------------------------------------------------------------------
(* Two synchronize_esi_systems runs at once, statement by statement *)

\* The runs: two calls of synchronize_esi_systems on one store, e.g. the
\* bootstrap and a refresh handler.
SyncRuns == {1, 2}

\* A run at one of its awaits: esi_ids the listing it got, to_remove what it
\* removes, todo the ids of to_add whose pull_system task has not completed
\* (the tasks are spawned after the removal), saved the ids it has saved.
SyncRun(pc, esi_ids, to_remove, todo, saved, result) ==
    [pc |-> pc, esi_ids |-> esi_ids, to_remove |-> to_remove, todo |-> todo,
     saved |-> saved, result |-> result]

\* Both runs are called on a store that is empty or holds Turnur and Jita.
InitTwoSyncs ==
    /\ systems \in {{}, PhaseSystems}
    /\ stargates = {}
    /\ jumps = EmptyBag
    /\ last = NoOp
    /\ risk_refreshes = 0
    /\ calc = NoCalc
    /\ projections = NoProjections
    /\ served = NotServed
    /\ graph_refreshes = 0
    /\ requests = 0
    /\ connecting = NotConnecting
    /\ set = [pc |-> "syncing",
              run |-> [r \in SyncRuns |->
                          SyncRun("get_system_ids", {}, {}, {}, {},
                                  [tag |-> "Pending", kind |-> "-"])]]

two_syncs_vars ==
    <<stargates, last, risk_refreshes, calc, projections, served, graph_refreshes,
      requests, connecting>>

\* get_system_ids(&client).await?
sync_get_system_ids ==
    \E r \in SyncRuns, listing \in ServiceSystemListings :
        /\ set.run[r].pc = "get_system_ids"
        /\ set' = [set EXCEPT !.run[r] =
                      IF listing.result # Ok
                      THEN SyncRun("returned", {}, {}, {}, {}, listing.result)
                      ELSE [@ EXCEPT !.pc = "get_all_system_ids",
                                     !.esi_ids = listing.ids]]
        /\ UNCHANGED <<systems, jumps>>
        /\ UNCHANGED two_syncs_vars

\* get_all_system_ids(graph).await?, then to_remove and to_add; the removal
\* is skipped when to_remove is empty.
sync_get_all_system_ids ==
    \E r \in SyncRuns :
        LET run == set.run[r]
            db_system_ids == get_all_system_ids(systems)
            to_remove == systems_to_remove(db_system_ids, run.esi_ids)
            to_add == systems_to_add(db_system_ids, run.esi_ids)
        IN  /\ run.pc = "get_all_system_ids"
            /\ set' = [set EXCEPT !.run[r] =
                          [run EXCEPT !.pc = IF to_remove # {}
                                             THEN "remove_systems_by_id"
                                             ELSE "pull_systems",
                                      !.to_remove = to_remove, !.todo = to_add]]
            /\ UNCHANGED <<systems, jumps>>
            /\ UNCHANGED two_syncs_vars

\* remove_systems_by_id(graph, to_remove).await?
sync_remove_systems_by_id ==
    \E r \in SyncRuns :
        LET run == set.run[r]
        IN  /\ run.pc = "remove_systems_by_id"
            /\ systems' = remove_systems_by_id_nodes(systems, run.to_remove)
            /\ jumps' = remove_systems_by_id_jumps(systems, jumps, run.to_remove)
            /\ set' = [set EXCEPT !.run[r].pc = "pull_systems"]
            /\ UNCHANGED two_syncs_vars

\* A pull_system task of a run completes: the node is created.
sync_pull_system ==
    \E r \in SyncRuns :
        \E id \in set.run[r].todo :
            /\ set.run[r].pc # "remove_systems_by_id"
            /\ systems' = save_system(systems, SystemFrom(SystemEsiResponse(id)))
            /\ set' = [set EXCEPT !.run[r].todo = @ \ {id},
                                  !.run[r].saved = @ \cup {id}]
            /\ UNCHANGED jumps
            /\ UNCHANGED two_syncs_vars

\* pull_systems has joined its tasks; remove_duplicate_systems(graph).await?
sync_remove_duplicate_systems ==
    \E r \in SyncRuns :
        /\ set.run[r].pc = "pull_systems"
        /\ all_joined(set.run[r].todo)
        /\ \E keep \in DuplicateSurvivors(systems) :
             /\ systems' = keep
             /\ jumps' = remove_duplicate_systems_jumps(jumps, keep)
        /\ set' = [set EXCEPT !.run[r].pc = "get_saved_system_count"]
        /\ UNCHANGED two_syncs_vars

\* get_saved_system_count(&graph).await?, then Ok(()).
sync_get_saved_system_count ==
    \E r \in SyncRuns :
        /\ set.run[r].pc = "get_saved_system_count"
        /\ set' = [set EXCEPT !.run[r].pc = "returned", !.run[r].result = Ok]
        /\ UNCHANGED <<systems, jumps>>
        /\ UNCHANGED two_syncs_vars

NextTwoSyncs ==
    \/ sync_get_system_ids
    \/ sync_get_all_system_ids
    \/ sync_remove_systems_by_id
    \/ sync_pull_system
    \/ sync_remove_duplicate_systems
    \/ sync_get_saved_system_count

SpecTwoSyncs == InitTwoSyncs /\ [][NextTwoSyncs]_vars

----------------------------------------------------------------------------
(* A route query beside a projection refresh, call by call *)

\* relationshipProperties of the projection of this name.
PropertyOf(graph_name) == IF graph_name = "system-map" THEN "cost" ELSE "risk"

\* The projections when the service starts: each built by the bootstrap, or
\* absent because the bootstrap stopped before its build.
StartProjections(built) ==
    [n \in ProjectionNames |->
        IF n \in built
        THEN Project(PhaseSystems, PhaseJumps, PropertyOf(n))
        ELSE NoProjection]

\* A projection refresh and a route handler of the service, each at one of
\* its awaits.  present tells whether the projection existed when the path
\* procedure of the handler ran.
NoRefresh == [pc |-> "idle", graph_name |-> "-"]
NoQuery == [pc |-> "idle", op |-> "-", present |-> FALSE]

InitRouteDuringRefresh ==
    /\ systems = PhaseSystems
    /\ stargates = PhaseStargates
    /\ jumps = PhaseJumps
    /\ last = NoOp
    /\ risk_refreshes = 0
    /\ calc = NoCalc
    /\ \E built \in SUBSET ProjectionNames : projections = StartProjections(built)
    /\ served = NotServed
    /\ graph_refreshes = 0
    /\ requests = 0
    /\ connecting = NotConnecting
    /\ set = [pc |-> "serving", refresh |-> NoRefresh, query |-> NoQuery]

route_vars ==
    <<systems, stargates, jumps, last, risk_refreshes, calc, served, requests, connecting>>

\* A refresh handler calls refresh_jump_cost_graph or refresh_jump_risk_graph.
refresh_graph_called ==
    /\ set.refresh.pc = "idle"
    /\ graph_refreshes < MaxGraphRefreshes
    /\ graph_refreshes' = graph_refreshes + 1
    /\ \E graph_name \in ProjectionNames :
         set' = [set EXCEPT !.refresh = [pc |-> "graph_exists", graph_name |-> graph_name]]
    /\ UNCHANGED projections
    /\ UNCHANGED route_vars

\* if graph_exists(&graph, name).await?
refresh_graph_exists ==
    /\ set.refresh.pc = "graph_exists"
    /\ set' = [set EXCEPT !.refresh.pc =
                  IF graph_exists(projections, set.refresh.graph_name)
                  THEN "drop" ELSE "build"]
    /\ UNCHANGED <<projections, graph_refreshes>>
    /\ UNCHANGED route_vars

\* drop_system_jump_graph(&graph).await? (drop_jump_risk_graph)
refresh_graph_drop ==
    /\ set.refresh.pc = "drop"
    /\ projections' = drop_graph(projections, set.refresh.graph_name)
    /\ set' = [set EXCEPT !.refresh.pc = "build"]
    /\ UNCHANGED graph_refreshes
    /\ UNCHANGED route_vars

\* build_system_jump_graph(graph).await? (build_jump_risk_graph); the
\* projection is there either way when a handler built it in between.
refresh_graph_build ==
    /\ set.refresh.pc = "build"
    /\ projections' = IF graph_exists(projections, set.refresh.graph_name)
                      THEN projections
                      ELSE build_graph(projections, systems, jumps,
                                       set.refresh.graph_name,
                                       PropertyOf(set.refresh.graph_name))
    /\ set' = [set EXCEPT !.refresh = NoRefresh]
    /\ UNCHANGED graph_refreshes
    /\ UNCHANGED route_vars

\* shortest_route_to_handler: find_shortest_route(..).await is its first
\* call.
shortest_route_to_handler_find ==
    /\ set.query.pc \in {"idle", "done"}
    /\ set' = [set EXCEPT !.query =
                  [pc |-> "done", op |-> "shortest_route_to_handler",
                   present |-> graph_exists(projections, "system-map")]]
    /\ UNCHANGED <<projections, graph_refreshes>>
    /\ UNCHANGED route_vars

\* safest_route_to_handler: graph_exists(&graph, "jump-risk").await
safest_route_to_handler_exists ==
    /\ set.query.pc \in {"idle", "done"}
    /\ set' = [set EXCEPT !.query =
                  [pc |-> IF graph_exists(projections, "jump-risk")
                          THEN "find" ELSE "build",
                   op |-> "safest_route_to_handler", present |-> FALSE]]
    /\ UNCHANGED <<projections, graph_refreshes>>
    /\ UNCHANGED route_vars

\* let _ = build_jump_risk_graph(graph.clone()).await
safest_route_to_handler_build ==
    /\ set.query.pc = "build"
    /\ projections' = IF graph_exists(projections, "jump-risk")
                      THEN projections
                      ELSE build_graph(projections, systems, jumps, "jump-risk", "risk")
    /\ set' = [set EXCEPT !.query.pc = "find"]
    /\ UNCHANGED graph_refreshes
    /\ UNCHANGED route_vars

\* find_safest_route(..).await
safest_route_to_handler_find ==
    /\ set.query.pc = "find"
    /\ set' = [set EXCEPT !.query.pc = "done",
                          !.query.present = graph_exists(projections, "jump-risk")]
    /\ UNCHANGED <<projections, graph_refreshes>>
    /\ UNCHANGED route_vars

NextRouteDuringRefresh ==
    \/ refresh_graph_called
    \/ refresh_graph_exists
    \/ refresh_graph_drop
    \/ refresh_graph_build
    \/ shortest_route_to_handler_find
    \/ safest_route_to_handler_exists
    \/ safest_route_to_handler_build
    \/ safest_route_to_handler_find

SpecRouteDuringRefresh == InitRouteDuringRefresh /\ [][NextRouteDuringRefresh]_vars

----------------------------------------------------------------------------
(* The wormhole refresher with its failures *)

\* A wormhole refresh in which a purge or the signature fetch can fail and
\* every save_wormhole task succeeds.
refresh_eve_scout_system_relations_fetching ==
    refresh_eve_scout_system_relations_in(
        WormholeRefreshFailures, SignatureAnswers, {"Saved"})

\* The wormhole refresher with the failures of its purges and of the
\* signature fetch, on the stores the reconciler leaves when nothing fails.
NextWormholeFailures ==
    \/ synchronize_esi_systems_ok
    \/ synchronize_esi_stargates_ok
    \/ refresh_eve_scout_system_relations_fetching

SpecWormholeFailures == Init /\ [][NextWormholeFailures]_vars

----------------------------------------------------------------------------
(* set_system_jump_risk called on its own: src/src/database.rs *)

\* The baselines a risk is set with: those of the galaxy totals 0 and
\* MaxCount.
RiskBaselines == {baseline_jump_risk(k, j) : k \in {0, MaxCount}, j \in {0, MaxCount}}

\* A call of the store that has returned.
StoreCall(op, system_id, lookup, result) ==
    [pc |-> "returned", op |-> op, system_id |-> system_id, lookup |-> lookup,
     result |-> result]

\* A set_system_jump_risk that sets the risk before it looks at what
\* get_system answered.
set_system_jump_risk_returns_after_set(sys, jmp, system_id, baseline, lookup, run) ==
    [jumps |-> set_system_jump_risk(sys, jmp, system_id, baseline, "release"),
     result |-> IF lookup # Ok THEN lookup ELSE run]

\* set_system_jump_risk, to its return: lookup is what get_system answers
\* beside the row, run what the SET statement answers.
set_system_jump_risk_returns(sys, jmp, system_id, baseline, lookup, run) ==
    IF lookup # Ok THEN [jumps |-> jmp, result |-> lookup]
    ELSE IF get_system(sys, system_id) = {} THEN [jumps |-> jmp, result |-> Ok]
    ELSE IF run # Ok THEN [jumps |-> jmp, result |-> run]
    ELSE [jumps |-> set_system_jump_risk(sys, jmp, system_id, baseline, "release"),
          result |-> Ok]

InitSetRisk ==
    /\ systems = PhaseSystems
    /\ stargates = PhaseStargates
    /\ jumps = PhaseJumps
    /\ last = NoOp
    /\ risk_refreshes = 0
    /\ calc = NoCalc
    /\ projections = NoProjections
    /\ served = NotServed
    /\ graph_refreshes = 0
    /\ requests = 0
    /\ connecting = NotConnecting
    /\ set = NoJoinSet

set_risk_vars ==
    <<stargates, last, risk_refreshes, calc, projections, served, graph_refreshes,
      requests, connecting>>

\* set_last_hour_system_kills(graph, system_id, kills)
set_last_hour_system_kills_call ==
    /\ \E system_id \in SystemIds, kills \in {0, MaxCount} :
         /\ systems' = set_last_hour_system_kills(systems, system_id, kills)
         /\ set' = StoreCall("set_last_hour_system_kills", system_id, Ok, Ok)
    /\ UNCHANGED jumps
    /\ UNCHANGED set_risk_vars

\* set_last_hour_system_jumps(graph, system_id, jumps)
set_last_hour_system_jumps_call ==
    /\ \E system_id \in SystemIds, jumps_ \in {0, MaxCount} :
         /\ systems' = set_last_hour_system_jumps(systems, system_id, jumps_)
         /\ set' = StoreCall("set_last_hour_system_jumps", system_id, Ok, Ok)
    /\ UNCHANGED jumps
    /\ UNCHANGED set_risk_vars

\* set_system_jump_risk(graph, system_id, baseline_jump_risk)
set_system_jump_risk_call ==
    /\ \E system_id \in SystemIds, baseline \in RiskBaselines,
          lookup \in {Ok, DatabaseError}, run \in {Ok, DatabaseError} :
         LET r == set_system_jump_risk_returns(systems, jumps, system_id, baseline,
                                               lookup, run)
         IN  /\ jumps' = r.jumps
             /\ set' = StoreCall("set_system_jump_risk", system_id, lookup, r.result)
    /\ UNCHANGED systems
    /\ UNCHANGED set_risk_vars

NextSetRisk ==
    \/ set_last_hour_system_kills_call
    \/ set_last_hour_system_jumps_call
    \/ set_system_jump_risk_call

SpecSetRisk == InitSetRisk /\ [][NextSetRisk]_vars

----------------------------------------------------------------------------
(* Properties of the reconciler *)

SystemsSyncReturned == last.op = "synchronize_esi_systems"
StargatesSyncReturned == last.op = "synchronize_esi_stargates"
WormholeRefreshReturned == last.op = "refresh_eve_scout_system_relations"

\* C1: when synchronize_esi_systems returns success, the stored system ids
\* are exactly the ids the catalog listed, and no two System nodes share a
\* system_id.
C1_SystemsMatchCatalog ==
    (SystemsSyncReturned /\ last.result = Ok) =>
        /\ get_all_system_ids(systems) = last.esi_ids
        /\ \A id \in last.esi_ids : Cardinality(MatchSystem(systems, id)) = 1

\* A successful sync that listed {2, 3, 4} and had only system 4 to fetch.
C1_Witness ==
    /\ SystemsSyncReturned /\ last.result = Ok
    /\ last.esi_ids = {2, 3, 4}
    /\ DOMAIN last.fates = {4}
    /\ get_all_system_ids(systems) = {2, 3, 4}

\* C2: when synchronize_esi_stargates returns success, every stored stargate
\* id is in the union of the stargates lists of the stored systems.
C2_StargatesWithinSystems ==
    (StargatesSyncReturned /\ last.result = Ok) =>
        get_all_stargate_ids(stargates) \subseteq esi_stargate_ids_of(systems)

\* A successful sync with nothing to add that leaves stargate 32 only, its
\* system stored and the system of stargate 23 not.
C2_Witness ==
    /\ StargatesSyncReturned /\ last.result = Ok
    /\ last.fates = <<>>
    /\ get_all_stargate_ids(stargates) = {32}
    /\ get_all_system_ids(systems) = {1, 3}

\* The store has the JUMP relationship of this Stargate node.
HasJumpOf(g) ==
    \E e \in DOMAIN jumps :
        /\ e.source[1] = g.system_id
        /\ e.dest[1] = g.destination_system_id
        /\ e.cost = 1

\* C3: for every stored Stargate node with system_id s and destination d the
\* store has a JUMP relationship s -> d with cost 1, in every state an
\* operation returns in.
C3_EveryStargateHasItsJump == \A g \in stargates : HasJumpOf(g)

\* The fetches of the last stargates sync that ended with these fates.
FetchesWith(kinds) == {i \in DOMAIN last.fates : last.fates[i] \in kinds}

\* C8 as stated: a RateLimited stargate fetch makes the sync fail with
\* Source(RateLimited), whatever the other fetches of the batch did.
C8_RateLimitedAlwaysReported ==
    (StargatesSyncReturned /\ FetchesWith({"RateLimited"}) # {}) =>
        last.result = Source("RateLimited")

\* C8: a RateLimited stargate fetch makes the sync fail at pull_stargates,
\* with Source(RateLimited) unless the save of another stargate of the batch
\* failed, and then with Source(RateLimited) or with that Target error.
C8_RateLimitedFailsSync ==
    (StargatesSyncReturned /\ FetchesWith({"RateLimited"}) # {}) =>
        /\ last.at = "pull_stargates"
        /\ last.result \in {Source("RateLimited"), Target}
        /\ (FetchesWith({"TargetNode", "TargetJump"}) = {}
                => last.result = Source("RateLimited"))

\* A sync that fetched two stargates, one rate-limited and one saved.
C8_Witness ==
    /\ StargatesSyncReturned
    /\ FetchesWith({"RateLimited"}) # {}
    /\ FetchesWith({"Saved"}) # {}
    /\ last.result = Source("RateLimited")

\* The errors of a stargate fetch that pull_stargate skips.
SkippedKinds == {"NotFound", "ServerError", "UnexpectedError"}

\* What a sync with a skipped fetch leaves: no Stargate node and no JUMP
\* relationship for the skipped stargate, and the node of every stargate whose
\* task saved, with its JUMP relationship when both its systems are stored.
SkippedAndSaved ==
    /\ \A i \in FetchesWith(SkippedKinds) :
          /\ i \notin get_all_stargate_ids(stargates)
          /\ ~jump_exists(systems, jumps, StargateEsiResponse(i).system_id,
                          StargateEsiResponse(i).destination.system_id)
    /\ \A i \in FetchesWith({"Saved"}) :
          /\ i \in get_all_stargate_ids(stargates)
          /\ ({StargateEsiResponse(i).system_id,
               StargateEsiResponse(i).destination.system_id}
                  \subseteq get_all_system_ids(systems)
                => \E g \in stargates : g.stargate_id = i /\ HasJumpOf(g))

----------------------------------------------------------------------------
(* Properties of the wormhole refresher *)

HubIds == {id \in SystemIds : SystemNames[id] \in {FirstHub, SecondHub}}

\* The number of JUMP relationships from system a to system b.
JumpCount(a, b) ==
    LET between == {e \in DOMAIN jumps : e.source[1] = a /\ e.dest[1] = b}
    IN  IF between = {} THEN 0
        ELSE BagCardinality([e \in between |-> jumps[e]])

\* The wormhole signatures of the last refresh that join a and b.
WormholesJoining(a, b) ==
    {i \in wormholes_of(last.sigs) :
        \/ last.sigs[i].in_system_id = a /\ last.sigs[i].out_system_id = b
        \/ last.sigs[i].in_system_id = b /\ last.sigs[i].out_system_id = a}

\* Every relationship incident to a hub was created by the last refresh from
\* a wormhole signature, with cost 1.
HubJumpsAreWormholes ==
    /\ \A e \in DOMAIN jumps :
          (e.source[1] \in HubIds \/ e.dest[1] \in HubIds) =>
              /\ e.cost = 1
              /\ e.risk = NoRisk
    /\ \A a \in SystemIds, b \in SystemIds :
          (a \in HubIds \/ b \in HubIds) =>
              JumpCount(a, b) <= Cardinality(WormholesJoining(a, b))

\* C10 as stated: after a successful wormhole refresh every relationship
\* incident to a hub is a JUMP the refresh created from a wormhole signature,
\* and both relationships of every wormhole signature exist.
C10_EveryWormholeSaved ==
    (WormholeRefreshReturned /\ last.result = Ok) =>
        /\ HubJumpsAreWormholes
        /\ \A i \in wormholes_of(last.sigs) :
              /\ JumpCount(last.sigs[i].in_system_id, last.sigs[i].out_system_id) > 0
              /\ JumpCount(last.sigs[i].out_system_id, last.sigs[i].in_system_id) > 0

\* C10: after a successful wormhole refresh every relationship incident to a
\* hub is a JUMP the refresh created from a wormhole signature, and both
\* relationships of every wormhole signature whose two systems are stored
\* exist, with cost 1.
C10_StoredWormholesSaved ==
    (WormholeRefreshReturned /\ last.result = Ok) =>
        /\ HubJumpsAreWormholes
        /\ \A i \in wormholes_of(last.sigs) :
              {last.sigs[i].in_system_id, last.sigs[i].out_system_id}
                  \subseteq get_all_system_ids(systems)
              => /\ JumpCount(last.sigs[i].in_system_id,
                              last.sigs[i].out_system_id) > 0
                 /\ JumpCount(last.sigs[i].out_system_id,
                              last.sigs[i].in_system_id) > 0

\* A successful refresh that saved the wormhole between Thera and Jita while
\* the stargate of Turnur is stored.
C10_Witness ==
    /\ WormholeRefreshReturned /\ last.result = Ok
    /\ wormholes_of(last.sigs) # {}
    /\ JumpCount(1, 3) = 1 /\ JumpCount(3, 1) = 1
    /\ 23 \in get_all_stargate_ids(stargates)

----------------------------------------------------------------------------
(* Properties of the risk engine *)

RiskRefreshReturned == last.op = "refresh_jump_risks"

\* The totals of the listings the last risk refresh pulled.
LastGalaxyKills == Galaxy(last.system_kills, DOMAIN last.system_kills)
LastGalaxyJumps == Galaxy(last.system_jumps, DOMAIN last.system_jumps)

\* The System node a JUMP relationship leads to.
Destination(e) == CHOOSE d \in systems : NodeOf(d) = e.dest

\* C4: when refresh_jump_risks returns success, the risk of every JUMP s -> d
\* is kills^2 / jumps + baseline (kills^2 + baseline when jumps = 0) on the
\* counters of d, with the baseline of the kills and jumps this refresh pulled.
C4_RiskOfDestination ==
    (RiskRefreshReturned /\ last.result = Ok) =>
        \A e \in DOMAIN jumps :
            /\ \E d \in systems : NodeOf(d) = e.dest
            /\ e.risk # NoRisk
            /\ e.risk.num = U32(Destination(e).kills * Destination(e).kills)
            /\ e.risk.den = U32(IF Destination(e).jumps > 0
                                THEN Destination(e).jumps ELSE 1)
            /\ e.risk.plus = (IF LastGalaxyJumps > 0
                              THEN Reduce(<<LastGalaxyKills, LastGalaxyJumps>>)
                              ELSE <<1, 100>>)

\* A successful refresh that pulled 2 kills and 1 jump for Jita: the JUMP
\* into Jita has risk 4 / 1 + 2 and the JUMP into Turnur 0 + 2.
C4_Witness ==
    /\ RiskRefreshReturned /\ last.result = Ok
    /\ \E e \in DOMAIN jumps :
          e.source[1] = 2 /\ e.dest[1] = 3 /\ e.risk = F64(U32(4), U32(1), <<2, 1>>)
    /\ \E e \in DOMAIN jumps :
          e.source[1] = 3 /\ e.dest[1] = 2 /\ e.risk = F64(U32(0), U32(1), <<2, 1>>)

----------------------------------------------------------------------------
(* Properties of calculate_total_risk *)

\* C5: for kills k whose square fits in 32 bits, jumps j and baseline b,
\* calculate_total_risk(k, j, b) is k * k + b when j = 0 and k * k / j + b
\* when j > 0; it is b when k = 0; and it is 0.1, 25.1, 0.1 and 0.6 on the
\* inputs of the tests of database.rs.
C5_RiskFormula ==
    (calc.evaluated /\ ~pow2_overflows(calc.kills)) =>
        /\ calc.risk # Panic
        /\ calc.risk.num = Mul16(calc.kills[2], calc.kills[2])
        /\ calc.risk.den = (IF calc.jumps = U32Zero THEN U32(1) ELSE calc.jumps)
        /\ calc.risk.plus = calc.baseline
        /\ calc.kills = U32Zero => calc.risk.num = U32Zero
        /\ (calc.kills = U32(0) /\ calc.jumps = U32(0) /\ calc.baseline = <<1, 10>>)
              => F64Rational(calc.risk) = <<1, 10>>
        /\ (calc.kills = U32(5) /\ calc.jumps = U32(0) /\ calc.baseline = <<1, 10>>)
              => F64Rational(calc.risk) = <<251, 10>>
        /\ (calc.kills = U32(0) /\ calc.jumps = U32(100) /\ calc.baseline = <<1, 10>>)
              => F64Rational(calc.risk) = <<1, 10>>
        /\ (calc.kills = U32(10) /\ calc.jumps = U32(200) /\ calc.baseline = <<1, 10>>)
              => F64Rational(calc.risk) = <<3, 5>>
        /\ calc.kills = U32(65535) => calc.risk.num = <<65534, 1>>

\* The evaluation of (10, 200, 0.1), which is 0.6.
C5_Witness ==
    /\ calc.evaluated
    /\ calc.kills = U32(10) /\ calc.jumps = U32(200) /\ calc.baseline = <<1, 10>>
    /\ calc.risk # Panic
    /\ F64Rational(calc.risk) = <<3, 5>>

\* C6: calculate_total_risk is monotone non-decreasing in kills for fixed
\* jumps and baseline, and monotone non-increasing in jumps for fixed kills > 0
\* and baseline, over the whole range of u32 values.
C6_Monotone ==
    /\ (calc.evaluated /\ calc.moved = "kills") =>
          /\ calc.before # Panic /\ calc.risk # Panic
          /\ F64Leq(calc.before, calc.risk)
    /\ (calc.evaluated /\ calc.moved = "jumps" /\ calc.kills # U32Zero) =>
          /\ calc.before # Panic /\ calc.risk # Panic
          /\ F64Leq(calc.risk, calc.before)

----------------------------------------------------------------------------
(* Properties of repeated operations *)

\* C11: a wormhole refresh that succeeds right after a successful wormhole
\* refresh, on the same signature list, leaves the multiset of JUMP
\* relationships with their properties as the first refresh left it.
C11_RefreshTwiceSameGraph ==
    [][(/\ WormholeRefreshReturned
        /\ last.result = Ok
        /\ last'.op = "refresh_eve_scout_system_relations"
        /\ last'.result = Ok
        /\ last'.sigs = last.sigs)
       => jumps' = jumps]_vars

\* The last operation was a dedupe pass that succeeded.
SystemsDedupeReturned ==
    last.op = "remove_duplicate_systems" /\ last.result = Ok
StargatesDedupeReturned ==
    last.op = "remove_duplicate_stargates" /\ last.result = Ok

\* C12: after remove_duplicate_systems (remove_duplicate_stargates) every id
\* that had a node before the pass has exactly one node: no id keeps a
\* duplicate and no id is eliminated.
C12_OneNodePerId ==
    /\ SystemsDedupeReturned =>
          \A s \in DOMAIN last.fates :
              Cardinality(MatchSystem(systems, s.system_id)) = 1
    /\ StargatesDedupeReturned =>
          \A g \in DOMAIN last.fates :
              Cardinality({h \in stargates : h.stargate_id = g.stargate_id}) = 1

\* A systems pass that met a duplicated id and an id with one node only: it
\* deleted a node of the first and matched the node of the second.
C12_Witness ==
    /\ SystemsDedupeReturned
    /\ \E s \in DOMAIN last.fates : last.fates[s] = "Deleted"
    /\ \E s \in DOMAIN last.fates :
          \A u \in DOMAIN last.fates : u.system_id = s.system_id => u = s

\* C13: a dedupe pass is a fixpoint: a second pass run on the store a
\* successful pass left deletes no node and no relationship.
C13_DedupeFixpoint ==
    /\ SystemsDedupeReturned =>
          \A keep \in DuplicateSurvivors(systems) :
              /\ keep = systems
              /\ remove_duplicate_systems_jumps(jumps, keep) = jumps
    /\ StargatesDedupeReturned =>
          \A keep \in DuplicateStargateSurvivors(stargates) : keep = stargates

\* A systems pass that deleted two nodes of one id and left JUMP
\* relationships on the survivor.
C13_Witness ==
    /\ SystemsDedupeReturned
    /\ \E id \in SavedSystemIds :
          Cardinality({s \in DOMAIN last.fates :
                          s.system_id = id /\ last.fates[s] = "Deleted"}) = 2
    /\ jumps # EmptyBag

----------------------------------------------------------------------------
(* Properties of the projection manager *)

\* The calls the operation of the service that ended last made.
Calls == {served.steps[i] : i \in DOMAIN served.steps}

\* C14: a successful refresh_jump_cost_graph (refresh_jump_risk_graph) leaves
\* system-map (jump-risk) present and equal to the projection of the System
\* nodes and JUMP relationships of the store with their cost (risk), whether
\* or not the projection existed before; and a refresh, successful or not,
\* calls the drop only when the projection existed.
C14_RefreshLeavesSnapshot ==
    [][/\ (refresh_jump_cost_graph /\ served'.result = Ok)
            => projections'["system-map"] = Project(systems', jumps', "cost")
       /\ (refresh_jump_risk_graph /\ served'.result = Ok)
            => projections'["jump-risk"] = Project(systems', jumps', "risk")
       /\ (refresh_jump_cost_graph
             /\ \E i \in DOMAIN served'.steps : served'.steps[i] = "drop")
            => graph_exists(projections, "system-map")
       /\ (refresh_jump_risk_graph
             /\ \E i \in DOMAIN served'.steps : served'.steps[i] = "drop")
            => graph_exists(projections, "jump-risk")]_vars

\* A successful refresh of jump-risk that dropped the projection it found and
\* built one with a relationship that carries a risk.
C14_Witness ==
    /\ served.op = "refresh_jump_risk_graph"
    /\ served.result = Ok
    /\ "drop" \in Calls
    /\ \E e \in DOMAIN projections["jump-risk"].rels : e.weight # NoRisk

\* C15: a successful projection refresh that comes right after a successful
\* refresh of the same projection, with no write to the store in between,
\* leaves the projection present, with the same content, and every route
\* query with the same answers.
C15_RefreshTwiceSameProjection ==
    [][(/\ \/ refresh_jump_cost_graph /\ served.op = "refresh_jump_cost_graph"
           \/ refresh_jump_risk_graph /\ served.op = "refresh_jump_risk_graph"
        /\ served.result = Ok
        /\ served'.result = Ok)
       => /\ projections' = projections
          /\ graph_exists(projections', "system-map")
                = graph_exists(projections, "system-map")
          /\ \A from, to \in RouteNames :
                /\ find_shortest_route(projections', systems', from, to)
                      = find_shortest_route(projections, systems, from, to)
                /\ find_safest_route(projections', systems', from, to)
                      = find_safest_route(projections, systems, from, to)]_vars

\* Two successful refreshes of system-map in a row: the second dropped what
\* the first built, and the projection has a route between two systems.
C15_Witness ==
    /\ served.op = "refresh_jump_cost_graph"
    /\ served.result = Ok
    /\ served.after = [op |-> "refresh_jump_cost_graph", result |-> Ok]
    /\ "drop" \in Calls
    /\ \E r \in find_shortest_route(projections, systems, "Turnur", "Jita") :
          r.tag = "Some"

----------------------------------------------------------------------------
(* Properties of the service *)

\* The steps of main before it serves.
BootstrapOrder ==
    <<"synchronize_esi_systems", "synchronize_esi_stargates", "refresh_jump_risks",
      "refresh_jump_risk_graph", "refresh_eve_scout_system_relations",
      "refresh_jump_cost_graph">>

BootstrapSteps == {BootstrapOrder[i] : i \in DOMAIN BootstrapOrder}

\* The place of a step in the order; serving comes last.
StepPlace(step) ==
    IF step \in BootstrapSteps
    THEN CHOOSE i \in DOMAIN BootstrapOrder : BootstrapOrder[i] = step
    ELSE Len(BootstrapOrder) + 1

MainEnded == served.op = "main"

\* The steps main ran are in the order of BootstrapOrder, none twice.
RanInOrder ==
    \A i, j \in DOMAIN served.steps :
        i < j => StepPlace(served.steps[i]) < StepPlace(served.steps[j])

\* C16 as stated: main runs its steps in the order systems sync, stargates
\* sync, risk refresh, jump-risk refresh, wormhole refresh, system-map
\* refresh, and after a step that failed it runs no other step.
C16_AbortsOnFirstError ==
    MainEnded =>
        /\ RanInOrder
        /\ \A i, j \in DOMAIN served.steps :
              (served.steps[i] \in served.failed /\ i < j)
                  => served.steps[j] \notin BootstrapSteps

\* C16, amended: main runs its steps in that order.  After a failed systems
\* sync it runs no other step; after a failed stargates sync it skips the
\* risk refresh and the jump-risk refresh and still runs the wormhole refresh
\* and the system-map refresh; a failure of one of the other four steps is a
\* panic that ends main there.  main serves after every run without a panic,
\* the runs with a failed sync included.
C16_BootstrapOrder ==
    MainEnded =>
        LET ran == {served.steps[i] : i \in DOMAIN served.steps}
        IN  /\ RanInOrder
            /\ served.steps[1] = "synchronize_esi_systems"
            /\ served.failed \subseteq ran
            /\ "synchronize_esi_systems" \in served.failed
                  => ran \cap BootstrapSteps = {"synchronize_esi_systems"}
            /\ "synchronize_esi_systems" \notin served.failed
                  => "synchronize_esi_stargates" \in ran
            /\ "synchronize_esi_stargates" \in served.failed
                  => /\ "refresh_jump_risks" \notin ran
                     /\ "refresh_jump_risk_graph" \notin ran
                     /\ "refresh_eve_scout_system_relations" \in ran
            /\ ("synchronize_esi_stargates" \in ran
                    /\ "synchronize_esi_stargates" \notin served.failed)
                  => "refresh_jump_risks" \in ran
            /\ \A step \in served.failed
                        \ {"synchronize_esi_systems", "synchronize_esi_stargates"} :
                  /\ served.steps[Len(served.steps)] = step
                  /\ served.result = Panic
            /\ \A i \in 1..(Len(served.steps) - 1) :
                  (served.steps[i] \notin served.failed
                      /\ served.steps[i] \notin {"synchronize_esi_systems",
                                                 "synchronize_esi_stargates"})
                    => StepPlace(served.steps[i + 1]) = StepPlace(served.steps[i]) + 1
            /\ served.result = Serving <=> "serve" \in ran
            /\ served.result \in {Serving, Panic}

\* main served after its stargates sync failed and its wormhole refresh and
\* system-map refresh ran.
C16_Witness ==
    /\ MainEnded
    /\ served.failed = {"synchronize_esi_stargates"}
    /\ served.result = Serving
    /\ served.steps = <<"synchronize_esi_systems", "synchronize_esi_stargates",
                        "refresh_eve_scout_system_relations",
                        "refresh_jump_cost_graph", "serve">>
    /\ graph_exists(projections, "system-map")

----------------------------------------------------------------------------
(* Properties of the service handlers *)

\* The four refresh handlers.
RefreshHandlers ==
    {"systems_refresh_handler", "systems_risk_handler", "stargates_refresh_handler",
     "wormholes_refresh_handler"}

\* The relationship property a projection indexes.
GraphProperty(graph_name) == IF graph_name = "system-map" THEN "cost" ELSE "risk"

\* C17: after a refresh handler that succeeded, every projection that exists
\* is the projection of the System nodes and JUMP relationships of the store
\* with their current cost (system-map) or risk (jump-risk).
C17_HandlersRebuildInvalidated ==
    (served.op \in RefreshHandlers /\ served.result = Ok)
        => \A graph_name \in ProjectionNames :
              graph_exists(projections, graph_name)
                => projections[graph_name]
                     = Project(systems, jumps, GraphProperty(graph_name))

\* C18: the safest-route handler runs its path query only with the jump-risk
\* projection present.
C18_SafestQueriesPresentProjection ==
    (served.op = "safest_route_to_handler" /\ "find_safest_route" \in Calls)
        => graph_exists(projections, "jump-risk")

\* C19: the shortest-route handler answers with status 404 or with a JSON
\* array of system names.
C19_NoRouteIs404 ==
    (served.op = "shortest_route_to_handler" /\ served.result = Ok)
        => /\ served.response.answered
           /\ \/ served.response.status = 404
              \/ served.response.body.kind = "json array"

\* C20: a refresh handler one of whose calls failed answers with status 500.
C20_FailureIs500 ==
    (served.op \in RefreshHandlers /\ served.failed # {})
        => /\ served.response.answered
           /\ served.response.status = 500

----------------------------------------------------------------------------
(* Properties of the connection bootstrap *)

\* The attempts of the call so far, and those that failed.
Attempts == {i \in DOMAIN connecting.trace : connecting.trace[i] # "sleep"}

FailedAttempts ==
    {i \in DOMAIN connecting.trace : connecting.trace[i] \in Neo4rsErrorKinds}

ConnectReturned == connecting.pc = "returned"

\* At most N attempts; a success is the last event; a sleep stands between
\* two attempts and nowhere else; the result is the error exactly when N
\* attempts failed, and it is the handle exactly when the last one succeeded.
RetryContract ==
    /\ Cardinality(Attempts) <= connecting.max_retries
    /\ \A i \in DOMAIN connecting.trace :
          connecting.trace[i] = "connected"
            => i = Len(connecting.trace) /\ ConnectReturned
    /\ \A i \in DOMAIN connecting.trace :
          connecting.trace[i] = "sleep"
            => /\ i > 1
               /\ connecting.trace[i - 1] \in Neo4rsErrorKinds
               /\ Cardinality({j \in Attempts : j < i}) < connecting.max_retries
               /\ i < Len(connecting.trace) => connecting.trace[i + 1] # "sleep"
    /\ \A i \in 1..(Len(connecting.trace) - 1) :
          connecting.trace[i] = "sleep" \/ connecting.trace[i + 1] = "sleep"
    /\ connecting.pc = "sleep" => connecting.attempt < connecting.max_retries
    /\ ConnectReturned
         => /\ \/ connecting.trace = <<>>
               \/ connecting.trace[Len(connecting.trace)] # "sleep"
            /\ connecting.result.tag = "Error"
                 <=> Cardinality(FailedAttempts) = connecting.max_retries
            /\ connecting.result.tag = "Error" => connecting.result.kind = "Client"
            /\ connecting.result = Connected
                 <=> /\ connecting.trace # <<>>
                     /\ connecting.trace[Len(connecting.trace)] = "connected"
            /\ connecting.result
                 \in {Connected} \cup {ClientError(e) : e \in Neo4rsErrorKinds}

\* C21: get_graph_client_with_retry(N) makes at most N attempts, returns the
\* handle at the first success, sleeps only between two attempts and never
\* after the last, returns the error exactly when N attempts failed, and
\* every call returns.
C21_BoundedRetry ==
    /\ []RetryContract
    /\ (connecting.pc # "idle") ~> ConnectReturned

\* A call with N >= 3 returned the error after N failures and N - 1 sleeps.
C21_Witness ==
    /\ ConnectReturned
    /\ connecting.max_retries >= 3
    /\ connecting.result.tag = "Error"
    /\ Cardinality(FailedAttempts) = connecting.max_retries
    /\ Cardinality(DOMAIN connecting.trace \ Attempts) = connecting.max_retries - 1

----------------------------------------------------------------------------
(* Properties of the task groups *)

\* C22: error_if_any_member_has_error returns only when every task spawned
\* into the set has returned, also when a task returned an error.
C22_ReturnsAfterAllJoined ==
    set.pc = "returned" => set.left = 0

\* C23: during pull_stargates at most 50 tasks are past the permit, however
\* many ids were spawned, and the permits left and the tasks in flight add up
\* to 50.
C23_AtMostFiftyInFlight ==
    (set.pc # "idle" /\ set.op = "pull_stargates")
        => /\ set.running <= SemaphorePermits
           /\ set.permits >= 0
           /\ set.permits + set.running = SemaphorePermits

\* Fifty tasks are in flight and a spawned task waits for a permit.
C23_Witness ==
    /\ set.pc # "idle"
    /\ set.op = "pull_stargates"
    /\ set.running = SemaphorePermits
    /\ set.permits = 0
    /\ set.waiting > 0

----------------------------------------------------------------------------
(* Properties of the activity pulls *)

\* The step leaves the Stargate nodes and the JUMP relationships alone, and
\* the System nodes are the same nodes, each changed at most in one counter.
SameNodes ==
    /\ stargates' = stargates
    /\ jumps' = jumps
    /\ Cardinality(systems') = Cardinality(systems)
    /\ {NodeOf(s) : s \in systems'} = {NodeOf(s) : s \in systems}

\* C24: pull_system_kills changes the kills of systems of its listing only,
\* to the count listed, and nothing else; pull_last_hour_of_jumps likewise for
\* the jumps.
C24_ActivityPullFrame ==
    [][/\ pull_system_kills
          => /\ SameNodes
             /\ \A s \in systems :
                  \E t \in systems' :
                     /\ NodeOf(t) = NodeOf(s)
                     /\ [t EXCEPT !.kills = s.kills] = s
                     /\ s.system_id \notin DOMAIN last'.system_kills => t = s
                     /\ t # s => t.kills = last'.system_kills[s.system_id]
       /\ pull_last_hour_of_jumps
          => /\ SameNodes
             /\ \A s \in systems :
                  \E t \in systems' :
                     /\ NodeOf(t) = NodeOf(s)
                     /\ [t EXCEPT !.jumps = s.jumps] = s
                     /\ s.system_id \notin DOMAIN last'.system_jumps => t = s
                     /\ t # s => t.jumps = last'.system_jumps[s.system_id]]_vars

\* A kills pull wrote the count of a listed system, and a system absent from
\* the listing has the kills an earlier pull gave it.
C24_Witness ==
    /\ last.op = "pull_system_kills"
    /\ last.result = Ok
    /\ \E s, t \in systems :
          /\ s.system_id \notin DOMAIN last.system_kills
          /\ s.kills > 0
          /\ s.jumps > 0
          /\ t.system_id \in DOMAIN last.system_kills
          /\ t.kills = last.system_kills[t.system_id]
          /\ t.kills > 0

----------------------------------------------------------------------------
(* Properties of a cancelled sync *)

\* C25: after a successful synchronize_esi_stargates, whatever was cancelled
\* before it, every stored Stargate whose parent and destination systems are
\* stored has a JUMP relationship from its parent to its destination.
C25_NextSyncConverges ==
    (last.op = "synchronize_esi_stargates" /\ last.result = Ok)
        => \A sg \in stargates :
              (MatchSystem(systems, sg.system_id) # {}
                  /\ MatchSystem(systems, sg.destination_system_id) # {})
                => jump_exists(systems, jumps, sg.system_id, sg.destination_system_id)

----------------------------------------------------------------------------
(* Properties of the counters *)

\* A count an activity feed can list: ship_kills is an i32, at most 2^31 - 1.
FromFeed(k) == k[1] < Half \div 2

\* C26: for every kills count a feed can list, calculate_total_risk computes
\* the square without a panic and the square fits in 32 bits.
C26_SquareFits ==
    (calc.evaluated /\ FromFeed(calc.kills))
        => /\ calc.risk # Panic
           /\ ~pow2_overflows(calc.kills)

----------------------------------------------------------------------------
(* Properties of the projections after bootstrap *)

\* C27: after a bootstrap none of whose steps failed, system-map and
\* jump-risk exist and are the projections of the System nodes and JUMP
\* relationships the bootstrap leaves.
C27_BootstrapProjectionsCurrent ==
    (MainEnded /\ served.result = Serving /\ served.failed = {})
        => \A graph_name \in ProjectionNames :
              /\ graph_exists(projections, graph_name)
              /\ projections[graph_name]
                   = Project(systems, jumps, GraphProperty(graph_name))

----------------------------------------------------------------------------
(* Properties of the removal of stale stargates *)

\* The stored Stargate nodes that no stored System lists.
StaleStargates == {g \in stargates : g.stargate_id \notin esi_stargate_ids_of(systems)}

----------------------------------------------------------------------------
(* Properties of the detail fetches of a systems sync *)

\* C30: in a systems sync a NotFound or a server error of the detail fetch of
\* one system is success for that item: the other systems to add are saved
\* and synchronize_esi_systems does not fail because of it; of the errors of
\* the catalog only RateLimited makes pull_systems return an error.
C30_OnlyRateLimitedAbortsSystems ==
    (/\ last.op = "synchronize_esi_systems"
     /\ last.at = "pull_systems"
     /\ last.result.tag = "Source")
        => /\ last.result = Source("RateLimited")
           /\ \A i \in DOMAIN last.fates : last.fates[i] # "Aborted"

----------------------------------------------------------------------------
(* Properties of the HTTP clients *)

\* The calls of the catalog client.
CatalogCalls == {"get_system_details", "get_stargate_details", "get_system_ids"}

\* C29: the catalog client classifies every response by its status before it
\* parses: a 2xx body is parsed, 404 is NotFound, 420 and 429 are
\* RateLimited, 5xx is ServerError, any other status from 400 on is
\* UnexpectedError, and the body of a response that is not 2xx is never
\* returned as a parsed value.
C29_ClassifiedBeforeParsing ==
    (last.op \in CatalogCalls /\ last.response.received) =>
        LET status == last.response.status
            result == last.result
        IN  /\ is_success(status) => result = json(last.response)
            /\ ~is_success(status) => result.tag # "Ok"
            /\ status = 404 => result.tag = "NotFound"
            /\ status \in {420, 429} => result.tag = "RateLimited"
            /\ status \in 500..599 => result.tag = "ServerError"
            /\ (status >= 400 /\ status \notin {404, 420, 429} /\ status \notin 500..599)
                  => result.tag = "UnexpectedError"

----------------------------------------------------------------------------
(* Properties of the risk engine on a store with wormholes *)

\* The relationships no stargate of the catalog induces: the wormhole
\* refresher created them.
WormholeJumps ==
    {e \in DOMAIN jumps :
        \A id \in StargateIds :
            \/ StargateEsiResponse(id).system_id # e.source[1]
            \/ StargateEsiResponse(id).destination.system_id # e.dest[1]}

\* C31: in every reachable state a JUMP relationship created by the wormhole
\* refresher has cost 1 and no risk property; a risk refresh that runs while
\* wormhole relationships exist gives them no risk.
C31_WormholeJumpsHaveNoRisk ==
    \A e \in WormholeJumps : e.cost = 1 /\ e.risk = NoRisk

----------------------------------------------------------------------------
(* Properties of the concurrent save_stargate tasks *)

\* C32: saving stargates never duplicates a JUMP relationship: after any
\* interleaving of the save_stargate tasks of one sync, each a query of
\* jump_exists followed by a create, there is at most one JUMP from a given
\* source system to a given destination system.
C32_NoDuplicateJump ==
    \A a \in SystemIds, b \in SystemIds : JumpCount(a, b) <= 1

----------------------------------------------------------------------------
(* Properties of the phases of a risk refresh *)

\* Every stored system of the listing has the count of the listing.
KillsWritten ==
    /\ set.kills_done = DOMAIN set.system_kills
    /\ \A s \in systems : s.system_id \in DOMAIN set.system_kills
                            => s.kills = set.system_kills[s.system_id]

JumpsWritten ==
    /\ set.jumps_done = DOMAIN set.system_jumps
    /\ \A s \in systems : s.system_id \in DOMAIN set.system_jumps
                            => s.jumps = set.system_jumps[s.system_id]

\* The calls of the kills phase and of the jumps phase.
CounterPhases ==
    {"get_system_kills", "set_last_hour_system_kills",
     "get_system_jumps", "set_last_hour_system_jumps"}

\* C33: a risk refresh runs its three phases in order: every kills write has
\* completed before the jumps listing is fetched, every jumps write has
\* completed before the first risk is computed, and when the kills or the
\* jumps phase fails no risk is written.
C33_PhasesInOrder ==
    [][/\ (set.pc = "get_system_jumps" /\ set'.pc # "get_system_jumps") => KillsWritten
       /\ (set'.pc # "idle" /\ set.pc # "idle" /\ set'.risks_done # set.risks_done)
              => KillsWritten /\ JumpsWritten
       /\ jumps' # jumps => set.pc = "set_system_jump_risk"
       /\ (set'.pc = "returned" /\ set'.at \in CounterPhases)
              => set'.risks_done = {} /\ jumps' = set'.before]_vars

\* A refresh returned success after both listings named two systems and a
\* risk was written for both.
C33_Witness ==
    /\ set.pc = "returned"
    /\ set.result = Ok
    /\ Cardinality(set.kills_done) = 2
    /\ Cardinality(set.jumps_done) = 2
    /\ Cardinality(set.risks_done) = 2
    /\ jumps # set.before

----------------------------------------------------------------------------
(* Properties of error_if_any_member_has_error *)

\* The places in the order of completion of the tasks that returned Err.
FailedPlaces ==
    {k \in DOMAIN set.completed : set.outcome[set.completed[k]].tag = "Err"}

\* C34: error_if_any_member_has_error returns success if and only if every
\* spawned task returned success; otherwise it returns the error of the task
\* that failed first in the order of completion.
C34_FirstErrorInCompletionOrder ==
    set.pc = "returned" =>
        /\ set.result = Ok <=> \A i \in DOMAIN set.outcome : set.outcome[i] = Ok
        /\ set.result # Ok =>
              /\ FailedPlaces # {}
              /\ \E k \in FailedPlaces :
                    /\ \A j \in FailedPlaces : k <= j
                    /\ set.result = set.outcome[set.completed[k]]

\* The function returned the error of the task spawned last, which failed
\* before the task spawned first failed.
C34_Witness ==
    /\ set.pc = "returned"
    /\ Cardinality(DOMAIN set.outcome) = MaxMembers
    /\ set.result = MemberErr(MaxMembers)
    /\ set.outcome[1] = MemberErr(1)
    /\ \E k \in DOMAIN set.completed : set.completed[k] = 2 /\ set.outcome[2] = Ok /\ k < set.joined

----------------------------------------------------------------------------
(* Properties of two systems syncs at once *)

\* Both runs have returned success and no task of theirs is left.
BothSyncsReturned ==
    \A r \in SyncRuns : set.run[r].pc = "returned" /\ set.run[r].result = Ok

\* C35: when two synchronize_esi_systems runs execute at once on one store
\* and both return success, no system_id is carried by more than one System
\* node once both have returned.
C35_NoDuplicateAfterBoth ==
    BothSyncsReturned =>
        \A id \in SystemIds : Cardinality(MatchSystem(systems, id)) <= 1

\* Both runs returned success after each of them had created a node of the
\* same system.
C35_Witness ==
    /\ BothSyncsReturned
    /\ set.run[1].saved \cap set.run[2].saved # {}

----------------------------------------------------------------------------
(* Properties of a route query beside a projection refresh *)

\* C36: no route query, shortest-route on system-map or safest-route on
\* jump-risk, executes while its projection is absent, also when a refresh
\* of the projection has dropped it and not yet built it again.
C36_QueryFindsProjection ==
    set.query.pc = "done" => set.query.present

----------------------------------------------------------------------------
(* Properties of a systems sync on the systems it keeps *)

\* The step is a systems sync, and id is in its listing and in the store.
KeptBySync(id) ==
    /\ last'.op = "synchronize_esi_systems"
    /\ id \in last'.esi_ids
    /\ id \in get_all_system_ids(systems)

\* The nodes of id, with their counters, are the same after the step.
SameSystem(id) == MatchSystem(systems', id) = MatchSystem(systems, id)

\* The JUMP edges between a node of id and a node of a system of others
\* are the same after the step.
SameJumps(id, others) ==
    \A e \in DOMAIN jumps \cup DOMAIN jumps' :
        (\/ e.source[1] = id /\ e.dest[1] \in others
         \/ e.dest[1] = id /\ e.source[1] \in others)
            => CopiesIn(e, jumps') = CopiesIn(e, jumps)

\* The ids with exactly one node in the store.
SingleSystems == {id \in get_all_system_ids(systems) :
                     Cardinality(MatchSystem(systems, id)) = 1}

----------------------------------------------------------------------------
(* Properties of a wormhole refresh whose signature fetch fails *)

\* The step is a wormhole refresh that returned from get_public_signatures.
SignatureFetchFailed ==
    /\ last'.op = "refresh_eve_scout_system_relations"
    /\ last'.at = "get_public_signatures"

\* C38: in a wormhole refresh both hub purges complete before the signature
\* list is fetched and before any wormhole edge is created: when the fetch
\* fails the refresh returns an error, has created no edge and has deleted
\* every relationship incident to Thera and Turnur.
C38_PurgedBeforeSignatureFetch ==
    [][SignatureFetchFailed
          => /\ last'.result # Ok
             /\ \A e \in DOMAIN jumps' :
                  /\ e.source[1] \notin HubIds
                  /\ e.dest[1] \notin HubIds
                  /\ CopiesIn(e, jumps') = CopiesIn(e, jumps)
             /\ \A e \in DOMAIN jumps :
                  (e.source[1] \notin HubIds /\ e.dest[1] \notin HubIds)
                      => CopiesIn(e, jumps') = CopiesIn(e, jumps)
             /\ systems' = systems
             /\ stargates' = stargates]_vars

\* A wormhole refresh has returned the error of the signature fetch on a
\* store that holds a stargate of a hub, saved with its JUMP, and no edge of
\* that hub.
C38_Witness ==
    /\ last.op = "refresh_eve_scout_system_relations"
    /\ last.at = "get_public_signatures"
    /\ last.result # Ok
    /\ jumps # EmptyBag
    /\ \E s \in systems :
         /\ s.system_id \in HubIds
         /\ \E g \in stargates : g.stargate_id \in s.stargates
         /\ \A e \in DOMAIN jumps : e.source # NodeOf(s) /\ e.dest # NodeOf(s)
----------------------------------------------------------------------------
(* Properties of the end of pull_stargates *)

\* pull_stargates has been called.
PullingStargates == set.pc # "idle" /\ set.op = "pull_stargates"

----------------------------------------------------------------------------
(* Properties of set_system_jump_risk called on its own *)

\* The step is a call of set_system_jump_risk.
RiskSetCalled ==
    /\ set'.pc = "returned"
    /\ set'.op = "set_system_jump_risk"

\* C40: set_system_jump_risk for a system id that is not stored returns
\* success and changes no edge; when the system lookup itself fails, the
\* error is returned and no risk is written.
C40_MissingSystemAndFailedLookupWriteNothing ==
    [][RiskSetCalled
          => /\ (set'.lookup = Ok /\ get_system(systems, set'.system_id) = {})
                    => set'.result = Ok /\ jumps' = jumps
             /\ set'.lookup # Ok
                    => set'.result = set'.lookup /\ jumps' = jumps
             /\ systems' = systems]_vars

\* The lookup of a stored system with a JUMP into it failed, the call
\* returned the error, and no JUMP into the system has a risk.
C40_Witness ==
    /\ set.pc = "returned"
    /\ set.op = "set_system_jump_risk"
    /\ set.lookup = DatabaseError
    /\ set.result = DatabaseError
    /\ get_system(systems, set.system_id) # {}
    /\ \E e \in DOMAIN jumps : e.dest[1] = set.system_id
    /\ \A e \in DOMAIN jumps : e.dest[1] = set.system_id => e.risk = NoRisk
====
